---- MODULE Spec2Model ----
(***************************************************************************)
(* Verification model of the evidence-finder pipeline:                     *)
(*   stage1_parser.py   DocumentParser (section detection, notes merge)    *)
(*   stage2_verbatim.py VerbatimExtractor (chunks, block extraction,       *)
(*                      evidence verification)                             *)
(*   stage2_gemini.py   GeminiVerbatimExtractor (the second verifier)      *)
(*                                                                         *)
(* A page text is a sequence of tokens: a token is a maximal run of word   *)
(* characters, one whitespace character or one punctuation mark.  The two  *)
(* tokens "<body>" and "<pad>" stand for long runs of prose that match no  *)
(* pattern of the parser (1200 and 993 characters).                        *)
(***************************************************************************)
EXTENDS Integers, Sequences, FiniteSets, TLC

VARIABLES
    pc,                 \* position in DocumentParser.parse
    pages,              \* self.pages: the page texts, page_num = index
    sections,           \* self.sections
    idx,                \* the page the loop of _detect_sections is at
    current_type,       \* locals of _detect_sections
    current_start,
    section_text,
    in_notes_section,
    notes_start_page,
    labels,             \* history: detected_type of every page handled
    sticky,             \* history: in_notes_section after every page handled
    pass1,              \* history: self.sections as pass 1 left it
    evidence_text,      \* the arguments of a call of _verify_evidence
    source_text,
    verified_by,        \* the implementations that have returned
    verbatim_result,    \* what VerbatimExtractor._verify_evidence returned
    gemini_result,      \* what GeminiVerbatimExtractor._verify_evidence returned
    llm_response,       \* what the generative process answers for the block
    block_done,         \* the implementations whose _extract_block has returned
    verbatim_block,     \* 'extractions' of VerbatimExtractor._extract_block
    gemini_block,       \* the result of GeminiVerbatimExtractor._extract_block
    ex_text,            \* the arguments of a call of _extract_relevant_chunks
    ex_keywords,
    ex_max_chunks,
    ex_pc,              \* "call" before the call, "returned" after it
    ex_scored,          \* scored_chunks, in the order the loop appended them
    ex_top,             \* top_chunks, the chunks the call returns (joined)
    ex_seen,            \* history: seen_ranges as the last call left it
    ex_log,             \* history: the arguments and the result of every call
    bt_files,           \* pdf_files of extract_batch, each file by its condition
    bt_pc,              \* where extract_batch is
    bt_idx,             \* the file the loop of extract_batch is at
    bt_outcomes,        \* history: how extract_single ended for every file tried
    xt_blank,           \* xt_blank[b]: _get_priority_text finds no text for block b
    xt_pc,              \* where VerbatimExtractor.extract is
    xt_block,           \* the block the loop of extract is at
    xt_all,             \* all_extractions
    xt_log,             \* history: what happened in every block handled
    xt_result,          \* total_evidence and verified_count of the result
    cl_text,            \* the page text handed to _classify_page
    cl_sticky,          \* its argument in_notes_section
    cl_pc,              \* "call" before the call, "returned" after it
    cl_label,           \* the section type the last call returned
    sc_chunk,           \* the phrases of the chunk handed to _score_chunk
    sc_pc,              \* "call" before the call, "returned" after it
    sc_score,           \* the score the call returned
    nb_sections,        \* _detect_individual_notes: the Sections (section_type, text, note_boundaries)
    nb_pc               \* _detect_individual_notes: before the call or after it

parserVars == <<pc, pages, sections, idx, current_type, current_start, section_text,
                in_notes_section, notes_start_page, labels, sticky, pass1>>

verifyVars == <<evidence_text, source_text, verified_by, verbatim_result,
                gemini_result>>

blockVars == <<llm_response, block_done, verbatim_block, gemini_block>>

chunkVars == <<ex_text, ex_keywords, ex_max_chunks, ex_pc, ex_scored, ex_top, ex_seen,
               ex_log>>

batchVars == <<bt_files, bt_pc, bt_idx, bt_outcomes>>

extractVars == <<xt_blank, xt_pc, xt_block, xt_all, xt_log, xt_result>>

classifyVars == <<cl_text, cl_sticky, cl_pc, cl_label>>

scoreVars == <<sc_chunk, sc_pc, sc_score>>

notesVars == <<nb_sections, nb_pc>>

vars == <<parserVars, verifyVars, blockVars, chunkVars, batchVars, extractVars,
    classifyVars,
    scoreVars,
    notesVars>>

\* the variables a step of the parser leaves alone
notParser == <<verifyVars, blockVars, chunkVars, batchVars, extractVars,
    classifyVars,
    scoreVars,
    notesVars>>

\* the variables a call of _verify_evidence leaves alone
notVerify == <<parserVars, blockVars, chunkVars, batchVars, extractVars,
    classifyVars,
    scoreVars,
    notesVars>>

\* the variables a call of _extract_block leaves alone
notBlock == <<parserVars, verifyVars, chunkVars, batchVars, extractVars,
    classifyVars,
    scoreVars,
    notesVars>>

\* the variables a call of _extract_relevant_chunks leaves alone
notChunk == <<parserVars, verifyVars, blockVars, batchVars, extractVars,
    classifyVars,
    scoreVars,
    notesVars>>

\* the variables a step of extract_batch leaves alone
notBatch == <<parserVars, verifyVars, blockVars, chunkVars, extractVars,
    classifyVars,
    scoreVars,
    notesVars>>

\* the variables a step of VerbatimExtractor.extract leaves alone
notExtract == <<parserVars, verifyVars, blockVars, chunkVars, batchVars,
    classifyVars,
    scoreVars,
    notesVars>>

\* the variables a call of _classify_page leaves alone
notClassify == <<parserVars, verifyVars, blockVars, chunkVars, batchVars, extractVars,
    scoreVars,
    notesVars>>

\* the variables a call of _score_chunk leaves alone
notScore == <<parserVars, verifyVars, blockVars, chunkVars, batchVars, extractVars, classifyVars,
    notesVars>>

\* what _detect_individual_notes leaves alone
notNotes == <<parserVars, verifyVars, blockVars, chunkVars, batchVars, extractVars, classifyVars, scoreVars>>

-----------------------------------------------------------------------------
(* Bounds of the model *)

MaxPages == 4

\* pages of a document of the specification of the merge pass
MaxMergePages == 7

\* the source texts of the verifier are made of at most MaxSegs segments
MaxSegs == 3

\* the generative process answers with at most MaxEntries entries of at most
\* MaxQuotes quotes each
MaxEntries == 2
MaxQuotes == 2

\* the section text handed to the chunk extractor is made of at most MaxItems
\* items (a page break or a line of page text)
MaxItems == 5

\* a chunk handed to the scorer alone holds at most MaxPhrases phrases
MaxPhrases == 3

-----------------------------------------------------------------------------
(* Tokens and regular expressions over token sequences *)

WS == {" ", "\n", "\t"}

NUM == {"1", "2", "3", "10", "12"}

\* str.lower() on one token
LowerTok(tok) ==
    CASE tok = "Note" -> "note"
      [] tok = "NOTE" -> "note"
      [] tok = "SIGNATURES" -> "signatures"
      [] tok = "Part" -> "part"
      [] tok = "IV" -> "iv"
      [] tok = "Form" -> "form"
      [] tok = "K" -> "k"
      [] tok = "Summary" -> "summary"
      [] OTHER -> tok

Lower(text) == [i \in 1..Len(text) |-> LowerTok(text[i])]

\* len() of one token in characters
TokLen(tok) ==
    CASE tok = "<body>" -> 1200
      [] tok = "<pad>" -> 993
      [] OTHER -> Len(tok)

RECURSIVE TextLen(_)
TextLen(text) ==
    IF text = <<>> THEN 0 ELSE TokLen(Head(text)) + TextLen(Tail(text))

\* pattern elements: a token class taken once, optionally, or one or more times
One(S) == [s |-> S, lo |-> 1, many |-> FALSE]
Opt(S) == [s |-> S, lo |-> 0, many |-> FALSE]
Plus(S) == [s |-> S, lo |-> 1, many |-> TRUE]
Star(S) == [s |-> S, lo |-> 0, many |-> TRUE]

\* the positions at which a match of pat[k..] that starts at text[i] can end
\* (the index after the last token matched)
RECURSIVE MatchEnds(_, _, _, _)
MatchEnds(pat, k, text, i) ==
    IF k > Len(pat) THEN {i}
    ELSE LET e == pat[k]
             skip == IF e.lo = 0 THEN MatchEnds(pat, k + 1, text, i) ELSE {}
             take == IF i <= Len(text) /\ text[i] \in e.s
                     THEN IF e.many
                          THEN MatchEnds([pat EXCEPT ![k].lo = 0], k, text, i + 1)
                          ELSE MatchEnds(pat, k + 1, text, i + 1)
                     ELSE {}
         IN  skip \cup take

\* re.search(pat, text)
Search(pat, text) ==
    \E i \in 1..(Len(text) + 1) : MatchEnds(pat, 1, text, i) # {}

\* re.search('^' + pat, text, re.MULTILINE)
SearchLineStart(pat, text) ==
    \E i \in 1..(Len(text) + 1) :
        /\ (i = 1 \/ text[i - 1] = "\n")
        /\ MatchEnds(pat, 1, text, i) # {}

\* re.search('^' + pat, text): without MULTILINE ^ is the start of the text
SearchTextStart(pat, text) == MatchEnds(pat, 1, text, 1) # {}

\* re.search(pat + '$', text): without MULTILINE $ is the end of the text, or
\* the position before a newline that ends the text
SearchTextEnd(pat, text) ==
    \E i \in 1..(Len(text) + 1) :
        \E j \in MatchEnds(pat, 1, text, i) :
            \/ j = Len(text) + 1
            \/ (j = Len(text) /\ text[j] = "\n")

\* text.strip() is not empty
StripNonEmpty(text) == \E i \in 1..Len(text) : text[i] \notin WS

-----------------------------------------------------------------------------
(* The patterns of stage1_parser.py.  A word class lists the tokens of the  *)
(* model's vocabulary that the regular expression accepts at that place; an *)
(* optional group is written out as two patterns.                           *)

W(word) == One({word})
Sp == Plus(WS)

EndsNote == {"note", "footnote"}
EndsNotes == {"note", "notes", "footnote", "footnotes"}

\* SECTION_PATTERNS, in the order of the dict
NotesPatterns ==
    << <<One(EndsNotes), Sp, W("to"), Sp, W("financial"), Sp, W("statements")>>,
       <<One(EndsNotes), Sp, W("to"), Sp, W("consolidated"), Sp, W("financial"), Sp,
         W("statements")>>,
       <<One(EndsNotes), Sp, W("to"), Sp, W("the"), Sp, W("financial"), Sp,
         W("statements")>>,
       <<One(EndsNotes), Sp, W("to"), Sp, W("the"), Sp, W("consolidated"), Sp,
         W("financial"), Sp, W("statements")>>,
       <<One({"footnote", "footnotes"}), Sp, W("to")>> >>

\* r'^note\s+\d+[\.\:\s]'
NoteLinePat == <<W("note"), Sp, One(NUM), One({".", ":"} \cup WS)>>

AccountingPatterns ==
    << <<W("accounting"), Sp, W("policies")>>,
       <<W("significant"), Sp, W("accounting"), Sp, W("policies")>>,
       <<W("summary"), Sp, W("of"), Sp, W("significant"), Sp, W("accounting"), Sp,
         W("policies")>>,
       <<W("basis"), Sp, W("of"), Sp, W("presentation")>> >>

MdaPatterns ==
    << <<One({"management", "managements", "management's"}), Sp, W("discussion"), Sp,
         W("and"), Sp, W("analysis")>>,
       <<W("md"), W("&"), W("a")>>,
       <<W("results"), Sp, W("of"), Sp, W("operations")>> >>

FinancialPatterns ==
    << <<W("consolidated"), Sp, One({"statement", "statements"}), Sp, W("of"), Sp,
         One({"operation", "operations", "income"})>>,
       <<W("consolidated"), Sp, W("balance"), Sp, One({"sheet", "sheets"})>>,
       <<W("consolidated"), Sp, One({"statement", "statements"}), Sp, W("of"), Sp,
         W("cash"), Sp, One({"flow", "flows"})>>,
       <<W("consolidated"), Sp, One({"statement", "statements"}), Sp, W("of"), Sp,
         One({"stockholder", "stockholders", "shareholder", "shareholders"})>> >>

CoverPatterns ==
    << <<W("form"), Sp, W("10"), W("-"), W("k")>>,
       <<W("annual"), Sp, W("report")>>,
       <<W("securities"), Sp, W("and"), Sp, W("exchange"), Sp, W("commission")>> >>

SECTION_PATTERNS ==
    << [section_type |-> "notes", patterns |-> NotesPatterns],
       [section_type |-> "accounting_policies", patterns |-> AccountingPatterns],
       [section_type |-> "md&a", patterns |-> MdaPatterns],
       [section_type |-> "financial_statements", patterns |-> FinancialPatterns],
       [section_type |-> "cover", patterns |-> CoverPatterns] >>

SectionTypes ==
    {"notes", "accounting_policies", "md&a", "financial_statements", "cover", "other"}

\* r'\bnote\s+1[\.\:\s\-]'
Note1Pat == <<W("note"), Sp, W("1"), One({".", ":", "-"} \cup WS)>>

\* r'note\s+\d+\.'
NoteDotPat == <<One(EndsNote), Sp, One(NUM), W(".")>>

\* r'note\s+\d+[\.\:]'
NoteDotColonPat == <<One(EndsNote), Sp, One(NUM), One({".", ":"})>>

\* len(text) > 1000
LenThreshold == 1000

\* the window in pages after max_end in which a statement Section is absorbed
AbsorbWindow == 5

\* one entry of SECTION_PATTERNS matches: the entry '^note...' of the notes
\* list is searched without re.MULTILINE
AnyPatternMatches(k, text_lower) ==
    \/ \E p \in 1..Len(SECTION_PATTERNS[k].patterns) :
           Search(SECTION_PATTERNS[k].patterns[p], text_lower)
    \/ (SECTION_PATTERNS[k].section_type = "notes"
           /\ SearchTextStart(NoteLinePat, text_lower))

\* mutant: the section type of the last list with a match
RECURSIVE FirstMatchingType_LastMatch(_, _)
FirstMatchingType_LastMatch(k, text_lower) ==
    IF k > Len(SECTION_PATTERNS) THEN "other"
    ELSE LET later == FirstMatchingType_LastMatch(k + 1, text_lower)
         IN  IF later # "other" THEN later
             ELSE IF AnyPatternMatches(k, text_lower)
                  THEN SECTION_PATTERNS[k].section_type
                  ELSE "other"

\* the for loop of _classify_page: the first section type with a match
RECURSIVE FirstMatchingType(_, _)
FirstMatchingType(k, text_lower) ==
    IF k > Len(SECTION_PATTERNS) THEN "other"
    ELSE IF AnyPatternMatches(k, text_lower) THEN SECTION_PATTERNS[k].section_type
    ELSE FirstMatchingType(k + 1, text_lower)

\* DocumentParser._classify_page
ClassifyPage(text_lower, in_notes) ==
    IF in_notes /\ Search(NoteDotPat, text_lower) THEN "notes"
    ELSE IF SearchLineStart(NoteLinePat, text_lower) THEN "notes"
    ELSE FirstMatchingType(1, text_lower)

\* DocumentParser._is_notes_exit
IsNotesExit(text_lower) ==
    \/ SearchTextEnd(<<One({"signature", "signatures"}), Star(WS)>>, text_lower)
    \/ Search(<<W("exhibit"), Sp, W("index")>>, text_lower)
    \/ Search(<<One({"exhibit", "exhibits"}), Sp, W("and"), Sp, W("financial")>>,
              text_lower)
    \/ Search(<<W("part"), Sp, W("iv")>>, text_lower)
    \/ Search(<<W("power"), Sp, W("of"), Sp, W("attorney")>>, text_lower)

\* DocumentParser._get_section_name
GetSectionName(section_type) ==
    CASE section_type = "notes" -> "Notes to Financial Statements"
      [] section_type = "accounting_policies" -> "Accounting Policies"
      [] section_type = "md&a" -> "Management's Discussion and Analysis"
      [] section_type = "financial_statements" -> "Financial Statements"
      [] section_type = "cover" -> "Cover Pages"
      [] OTHER -> "Other Content"

\* f"\n\n[PAGE {page_num}]\n{text}"
PageMarker(page_num) == "[PAGE " \o ToString(page_num) \o "]"
PageBlock(page_num, text) == <<"\n", "\n", PageMarker(page_num), "\n">> \o text


-----------------------------------------------------------------------------
(* The documents of the model: every sequence of at most MaxPages pages, each *)
(* page one of these texts (as page.extract_text() returned it)               *)

PageTexts ==
    { <<"Form", " ", "10", "-", "K">>,                       \* cover page
      <<"exhibit", " ", "text">>,                            \* no trigger
      <<"<body>">>,                                          \* long, no trigger
      <<"see", " ", "Note", " ", "1", " ", "page", " ", "12">>,  \* contents entry
      <<"Note", " ", "1", ".", " ", "Summary">>,             \* short heading
      <<"Note", " ", "1", ".", "<pad>">>,                    \* exactly 1000 chars
      <<"Note", " ", "1", ".", " ", "Summary", "\n", "<body>">>,
      <<"Note", " ", "2", ".", " ", "<body>">>,
      <<"see", " ", "Note", " ", "1", ".", " ", "<body>">>,  \* long, inside a line
      <<"Note", " ", "1", ".", " ", "<body>", "\n", "Part", " ", "IV">>,
      <<"SIGNATURES", "\n">>,                                \* ends the text
      <<"SIGNATURES", "\n", "pursuant", " ", "to">>,         \* text follows
      <<"results", " ", "of", " ", "operations">>,           \* md&a
      <<"consolidated", " ", "balance", " ", "sheets">>,
      <<"consolidated", " ", "balance", " ", "sheets", "\n",
        "see", " ", "Note", " ", "3", ".">> }

Docs == UNION { [1..n -> PageTexts] : n \in 0..MaxPages }

\* the page texts of the longer documents that exercise the merge pass
MergePageTexts ==
    { <<"Note", " ", "2", ".", " ", "<body>">>,             \* notes, state not entered
      <<"results", " ", "of", " ", "operations">>,           \* md&a
      <<"consolidated", " ", "balance", " ", "sheets">>,
      <<"consolidated", " ", "balance", " ", "sheets", "\n",
        "see", " ", "Note", " ", "3", ".">>,
      <<"consolidated", " ", "balance", " ", "sheets", "\n",
        "see", " ", "Note", " ", "3", ":">> }

MergeDocs == UNION { [1..n -> MergePageTexts] : n \in 0..MaxMergePages }

AllPageTexts == PageTexts \cup MergePageTexts

-----------------------------------------------------------------------------
(* DocumentParser._detect_sections, one page of the loop at a time *)

\* mutant: the length guard is left out
EntersNotes_NoLengthGuard(in_notes, text) ==
    ~in_notes /\ Search(Note1Pat, Lower(text))

\* the test that turns in_notes_section on
EntersNotes(in_notes, text) ==
    /\ ~in_notes
    /\ Search(Note1Pat, Lower(text))
    /\ TextLen(text) > LenThreshold

\* the exit test, made only while in_notes_section is set
ExitsNotes(in_notes, text) == in_notes /\ IsNotesExit(Lower(text))

\* mutant: inside the notes state the label of _classify_page is kept
ClassifyStep_NoOverride(in_notes, text) ==
    LET text_lower == Lower(text)
        d0 == ClassifyPage(text_lower, in_notes)
        enters == EntersNotes(in_notes, text)
        in1 == in_notes \/ enters
        d1 == IF enters THEN "notes" ELSE d0
        exits == ExitsNotes(in1, text)
        in2 == in1 /\ ~exits
        d3 == IF ~in2 /\ SearchLineStart(NoteLinePat, text_lower) THEN "notes" ELSE d1
    IN  [detected_type |-> d3, in_notes |-> in2, enters |-> enters, exits |-> exits]

\* one page through the classification part of the loop body:
\* the detected_type and the in_notes_section it leaves
ClassifyStep(in_notes, text) ==
    LET text_lower == Lower(text)
        d0 == ClassifyPage(text_lower, in_notes)
        enters == EntersNotes(in_notes, text)
        in1 == in_notes \/ enters
        d1 == IF enters THEN "notes" ELSE d0
        exits == ExitsNotes(in1, text)
        in2 == in1 /\ ~exits
        d2 == IF in1 /\ ~exits THEN "notes" ELSE d1
        d3 == IF ~in2 /\ SearchLineStart(NoteLinePat, text_lower) THEN "notes" ELSE d2
    IN  [detected_type |-> d3, in_notes |-> in2, enters |-> enters, exits |-> exits]

\* ClassifyStep of every page text of the model, computed once
StepTable == [t \in AllPageTexts |-> [b \in BOOLEAN |-> ClassifyStep(b, t)]]

\* mutant: every change of label closes the section, a change to other too
SectionChanges_AnyLabel(detected_type, cur_type) == detected_type # cur_type

\* the condition under which the accumulating section is closed
SectionChanges(detected_type, cur_type) ==
    detected_type # cur_type /\ detected_type # "other"

Section(section_type, start_page, end_page, text) ==
    [name |-> GetSectionName(section_type), section_type |-> section_type,
     start_page |-> start_page, end_page |-> end_page, text |-> text]


-----------------------------------------------------------------------------
(* DocumentParser._merge_notes_sections *)

Min(S) == CHOOSE x \in S : \A y \in S : x <= y
Max(S) == CHOOSE x \in S : \A y \in S : x >= y

NotesIndices(secs) == {i \in 1..Len(secs) : secs[i].section_type = "notes"}

\* a financial_statements Section that the loop takes for part of the notes
IsEmbeddedStatement(section, min_start, max_end) ==
    /\ section.section_type = "financial_statements"
    /\ min_start <= section.start_page
    /\ section.start_page <= max_end + AbsorbWindow
    /\ Search(NoteDotColonPat, Lower(section.text))

\* the loop over self.sections that extends max_end, from Section k on
RECURSIVE ExtendMaxEnd(_, _, _, _)
ExtendMaxEnd(secs, k, min_start, max_end) ==
    IF k > Len(secs) THEN max_end
    ELSE IF IsEmbeddedStatement(secs[k], min_start, max_end)
         THEN ExtendMaxEnd(secs, k + 1, min_start, Max({max_end, secs[k].end_page}))
         ELSE ExtendMaxEnd(secs, k + 1, min_start, max_end)

\* mutant: the texts of the notes fragments of pass 1 are joined, and a page
\* between two fragments is left out
RECURSIVE MergedText_Fragments(_, _, _, _)
MergedText_Fragments(pgs, k, min_start, max_end) ==
    IF k > Len(pgs) THEN <<>>
    ELSE (IF \E i \in NotesIndices(pass1) :
                 pass1[i].start_page <= k /\ k <= pass1[i].end_page
          THEN PageBlock(k, pgs[k]) ELSE <<>>)
         \o MergedText_Fragments(pgs, k + 1, min_start, max_end)

\* merged_text: the pages of the range, walked in page order
RECURSIVE MergedText(_, _, _, _)
MergedText(pgs, k, min_start, max_end) ==
    IF k > Len(pgs) THEN <<>>
    ELSE (IF min_start <= k /\ k <= max_end THEN PageBlock(k, pgs[k]) ELSE <<>>)
         \o MergedText(pgs, k + 1, min_start, max_end)

\* mutant: the removal reaches as far as the loop over the statements looks
IsRemoved_Window(section, min_start, max_end) ==
    \/ section.section_type = "notes"
    \/ (section.section_type = "financial_statements"
           /\ min_start <= section.start_page
           /\ section.start_page <= max_end + AbsorbWindow)

\* mutant: only the notes fragment that opens the range is removed
IsRemoved_FirstFragment(section, min_start, max_end) ==
    \/ (section.section_type = "notes" /\ section.start_page = min_start)
    \/ (section.section_type = "financial_statements"
           /\ min_start <= section.start_page /\ section.start_page <= max_end)

\* the Sections the list comprehension removes
IsRemoved(section, min_start, max_end) ==
    \/ section.section_type = "notes"
    \/ (section.section_type = "financial_statements"
           /\ min_start <= section.start_page /\ section.start_page <= max_end)

\* list.sort(key=lambda s: s.start_page): a stable sort
RECURSIVE InsertByStart(_, _)
InsertByStart(sorted, section) ==
    IF sorted = <<>> THEN <<section>>
    ELSE IF Head(sorted).start_page <= section.start_page
         THEN <<Head(sorted)>> \o InsertByStart(Tail(sorted), section)
         ELSE <<section>> \o sorted

\* mutant: the list is left as the append made it
SortByStart_Unsorted(secs) == secs

RECURSIVE SortByStart(_)
SortByStart(secs) ==
    IF secs = <<>> THEN <<>>
    ELSE InsertByStart(SortByStart(SubSeq(secs, 1, Len(secs) - 1)), secs[Len(secs)])

MergeNotesSections(secs, pgs) ==
    IF NotesIndices(secs) = {} THEN secs
    ELSE LET min_start == Min({secs[i].start_page : i \in NotesIndices(secs)})
             max_end0 == Max({secs[i].end_page : i \in NotesIndices(secs)})
             max_end == ExtendMaxEnd(secs, 1, min_start, max_end0)
             merged_section ==
                 Section("notes", min_start, max_end,
                         MergedText(pgs, 1, min_start, max_end))
             kept == SelectSeq(secs, LAMBDA sec : ~IsRemoved(sec, min_start, max_end))
         IN  SortByStart(Append(kept, merged_section))

-----------------------------------------------------------------------------
(* DocumentParser.parse *)

ParserInit ==
    /\ pc = "extract"
    /\ pages = <<>>
    /\ sections = <<>>
    /\ idx = 1
    /\ current_type = "other"
    /\ current_start = 1
    /\ section_text = <<>>
    /\ in_notes_section = FALSE
    /\ notes_start_page = 0
    /\ labels = <<>>
    /\ sticky = <<>>
    /\ pass1 = <<>>

\* no call of _verify_evidence is modelled
VerifyIdle ==
    /\ evidence_text = <<>>
    /\ source_text = <<>>
    /\ verified_by = {}
    /\ verbatim_result = FALSE
    /\ gemini_result = FALSE

\* no call of _extract_block is modelled
BlockIdle ==
    /\ llm_response = [kind |-> "none", extractions |-> <<>>]
    /\ block_done = {}
    /\ verbatim_block = <<>>
    /\ gemini_block = <<>>

\* no call of _extract_relevant_chunks is modelled
ChunkIdle ==
    /\ ex_text = <<>>
    /\ ex_keywords = <<>>
    /\ ex_max_chunks = 0
    /\ ex_pc = "idle"
    /\ ex_scored = <<>>
    /\ ex_top = <<>>
    /\ ex_seen = {}
    /\ ex_log = <<>>

BatchIdle ==
    /\ bt_files = <<>>
    /\ bt_pc = "idle"
    /\ bt_idx = 1
    /\ bt_outcomes = <<>>

ExtractIdle ==
    /\ xt_blank = <<>>
    /\ xt_pc = "idle"
    /\ xt_block = 1
    /\ xt_all = <<>>
    /\ xt_log = <<>>
    /\ xt_result = [total_evidence |-> 0, verified_count |-> 0]

\* the variables a call of _classify_page: nothing is running
ClassifyIdle ==
    /\ cl_text = <<>>
    /\ cl_sticky = FALSE
    /\ cl_pc = "idle"
    /\ cl_label = "none"

\* the variables a call of _score_chunk: nothing is running
ScoreIdle ==
    /\ sc_chunk = {}
    /\ sc_pc = "idle"
    /\ sc_score = 0

\* _detect_individual_notes: nothing is running
NotesIdle ==
    nb_sections = <<>> /\ nb_pc = "idle"

Init == ParserInit /\ VerifyIdle /\ BlockIdle /\ ChunkIdle /\ BatchIdle /\ ExtractIdle
    /\ NotesIdle
    /\ ScoreIdle
    /\ ClassifyIdle

\* _extract_pages: the external extractor delivers the page texts
ExtractPages ==
    /\ pc = "extract"
    /\ \E doc \in Docs : pages' = doc
    /\ pc' = "detect"
    /\ UNCHANGED <<sections, idx, current_type, current_start, section_text,
                   in_notes_section, notes_start_page, labels, sticky, pass1>>
    /\ UNCHANGED notParser

\* one iteration of "for page in self.pages"
DetectPage ==
    /\ pc = "detect"
    /\ idx <= Len(pages)
    /\ LET page_num == idx
           text == pages[idx]
           step == StepTable[text][in_notes_section]
           detected_type == step.detected_type
           changes == SectionChanges(detected_type, current_type)
       IN  /\ in_notes_section' = step.in_notes
           /\ notes_start_page' = IF step.enters THEN page_num ELSE notes_start_page
           /\ sections' = IF changes /\ StripNonEmpty(section_text)
                          THEN Append(sections,
                                      Section(current_type, current_start, page_num - 1,
                                              section_text))
                          ELSE sections
           /\ current_type' = IF changes THEN detected_type ELSE current_type
           /\ current_start' = IF changes THEN page_num ELSE current_start
           /\ section_text' = (IF changes THEN <<>> ELSE section_text)
                                  \o PageBlock(page_num, text)
           /\ labels' = Append(labels, detected_type)
           /\ sticky' = Append(sticky, step.in_notes)
    /\ idx' = idx + 1
    /\ UNCHANGED <<pc, pages, pass1>>
    /\ UNCHANGED notParser

\* "Save final section", after the loop
SaveFinalSection ==
    /\ pc = "detect"
    /\ idx > Len(pages)
    /\ sections' = IF StripNonEmpty(section_text)
                   THEN Append(sections,
                               Section(current_type, current_start, Len(pages),
                                       section_text))
                   ELSE sections
    /\ pass1' = sections'
    /\ pc' = "merge"
    /\ UNCHANGED <<pages, idx, current_type, current_start, section_text,
                   in_notes_section, notes_start_page, labels, sticky>>
    /\ UNCHANGED notParser

\* self._merge_notes_sections()
MergeNotes ==
    /\ pc = "merge"
    /\ sections' = MergeNotesSections(sections, pages)
    /\ pc' = "done"
    /\ UNCHANGED <<pages, idx, current_type, current_start, section_text,
                   in_notes_section, notes_start_page, labels, sticky, pass1>>
    /\ UNCHANGED notParser

Next == ExtractPages \/ DetectPage \/ SaveFinalSection \/ MergeNotes

Spec == Init /\ [][Next]_vars

\* _extract_pages for a document of up to MaxMergePages pages
ExtractMergePages ==
    /\ pc = "extract"
    /\ \E doc \in MergeDocs : pages' = doc
    /\ pc' = "detect"
    /\ UNCHANGED <<sections, idx, current_type, current_start, section_text,
                   in_notes_section, notes_start_page, labels, sticky, pass1>>
    /\ UNCHANGED notParser

NextMerge == ExtractMergePages \/ DetectPage \/ SaveFinalSection \/ MergeNotes

\* DocumentParser.parse on the longer documents
SpecMerge == Init /\ [][NextMerge]_vars

TypeOK ==
    /\ pc \in {"idle", "extract", "detect", "merge", "done"}
    /\ current_type \in SectionTypes
    /\ in_notes_section \in BOOLEAN
    /\ \A i \in 1..Len(sections) : sections[i].section_type \in SectionTypes


-----------------------------------------------------------------------------
(* Properties of DocumentParser.parse *)

Done == pc = "done"

Overlap(a, b) == a.start_page <= b.end_page /\ b.start_page <= a.end_page

\* in_notes_section before page i was handled
StickyBefore(i) == IF i = 1 THEN FALSE ELSE sticky[i - 1]

\* what the patterns say of each page text of the model, computed once
PageFacts ==
    [t \in AllPageTexts |->
        [ordinary |-> ClassifyPage(Lower(t), FALSE),
         in_notes |-> ClassifyPage(Lower(t), TRUE),
         note1 |-> Search(Note1Pat, Lower(t)),
         note1_dot |-> Search(<<W("note"), Sp, W("1"), W(".")>>, Lower(t)),
         note1_line |-> SearchLineStart(Note1Pat, Lower(t)),
         note_dot |-> Search(NoteDotPat, Lower(t)),
         note_dot_colon |-> Search(NoteDotColonPat, Lower(t)),
         note_line |-> SearchLineStart(NoteLinePat, Lower(t)),
         exit |-> IsNotesExit(Lower(t)),
         signatures |-> \E k \in 1..Len(t) : LowerTok(t[k]) = "signatures",
         len |-> TextLen(t)]]

\* the page alone, by the rules of _classify_page with the sticky flag off
OrdinaryLabel(text) == PageFacts[text].ordinary

MentionsNote1(text) == PageFacts[text].note1

\* C1: in the final Section list no two distinct Sections have intersecting
\* page ranges [start_page, end_page], whatever the arrangement of labels.
C1_NoOverlap ==
    Done => \A i, j \in 1..Len(sections) :
                i # j => ~Overlap(sections[i], sections[j])

\* C2: the final Section list is sorted ascending by start_page, both when the
\* footnote merge took place and when no notes Section exists.
C2_SortedByStart ==
    Done => \A i \in 1..(Len(sections) - 1) :
                sections[i].start_page <= sections[i + 1].start_page

\* a merge took place and its Section is not the last of the list: the re-sort
\* moved it
C2_Witness ==
    /\ Done
    /\ NotesIndices(pass1) # {}
    /\ Len(sections) >= 2
    /\ sections[1].section_type = "notes"
    /\ pass1[Len(pass1)].section_type # "notes"

\* C3: after the merge pass at most one Section has label notes, and exactly
\* one exists iff pass 1 produced at least one notes Section.
C3_NotesSingleton ==
    Done => /\ Cardinality(NotesIndices(sections)) <= 1
            /\ (Cardinality(NotesIndices(sections)) = 1 <=> NotesIndices(pass1) # {})

\* pass 1 left two notes fragments, the second after the sticky state was left
\* and entered again
C3_Witness ==
    /\ Done
    /\ Cardinality(NotesIndices(pass1)) >= 2
    /\ \E i, j, k \in 1..Len(sticky) :
           i < j /\ j < k /\ sticky[i] /\ ~sticky[j] /\ sticky[k]

\* the document of the end-to-end scenario: c cover pages, pages c+1..m long
\* pages with numbered note markers (the state is entered on page c+1), page
\* m+1 an exit page that matches no section trigger, then pages with no trigger
IsScenario(doc, c, m) ==
    /\ 1 <= c /\ c < m /\ m < Len(doc)
    /\ \A n \in 1..c : OrdinaryLabel(doc[n]) = "cover" /\ ~MentionsNote1(doc[n])
    /\ \A n \in (c + 1)..m :
           /\ PageFacts[doc[n]].note_line
           /\ PageFacts[doc[n]].len > LenThreshold
           /\ ~PageFacts[doc[n]].exit
    /\ PageFacts[doc[c + 1]].note1_dot
    /\ PageFacts[doc[m + 1]].exit
    /\ \A n \in (m + 1)..Len(doc) :
           /\ OrdinaryLabel(doc[n]) = "other"
           /\ PageFacts[doc[n]].in_notes = "other"
           /\ ~MentionsNote1(doc[n])

\* C4: for the scenario document the final list holds exactly one notes Section,
\* spanning exactly pages c+1..m, one cover Section spanning 1..c, and the
\* pages from m+1 on lie outside the notes Section.
C4_EndToEnd ==
    \A c, m \in 1..MaxPages :
        (Done /\ IsScenario(pages, c, m)) =>
            /\ \E i \in 1..Len(sections) :
                   /\ sections[i].section_type = "notes"
                   /\ sections[i].start_page = c + 1
                   /\ sections[i].end_page = m
            /\ Cardinality(NotesIndices(sections)) = 1
            /\ \E i \in 1..Len(sections) :
                   /\ sections[i].section_type = "cover"
                   /\ sections[i].start_page = 1
                   /\ sections[i].end_page = c
            /\ \A i \in NotesIndices(sections) : sections[i].end_page <= m

\* C8 as stated: a page shorter than the threshold that is handled outside the
\* notes state never enters it, even if it mentions "Note 1", and gets the label
\* of the ordinary rules; a page with "Note 1." and more than 1000 characters
\* enters the state and leaves it true.
C8_LengthGuard_Original ==
    \A i \in 1..Len(labels) :
        ~StickyBefore(i) =>
            /\ (PageFacts[pages[i]].len < LenThreshold =>
                    ~sticky[i] /\ labels[i] = OrdinaryLabel(pages[i]))
            /\ ((PageFacts[pages[i]].note1_dot /\ PageFacts[pages[i]].len > LenThreshold)
                    => sticky[i] /\ labels[i] = "notes")

\* C8 (amended): as C8, but the long "Note 1." page leaves the state true only
\* if it matches no exit pattern; if it does, the state is entered and left on
\* that page (the page is still labelled notes).
C8_LengthGuard ==
    \A i \in 1..Len(labels) :
        ~StickyBefore(i) =>
            /\ (PageFacts[pages[i]].len < LenThreshold =>
                    ~sticky[i] /\ labels[i] = OrdinaryLabel(pages[i]))
            /\ ((PageFacts[pages[i]].note1_dot /\ PageFacts[pages[i]].len > LenThreshold)
                    => /\ sticky[i] = ~PageFacts[pages[i]].exit
                       /\ labels[i] = "notes")

\* a short page that mentions Note 1 without being a notes page is handled
\* outside the state and leaves it off, and the long "Note 1." page after it
\* turns it on
C8_Witness ==
    \E i \in 1..(Len(labels) - 1) :
        /\ ~StickyBefore(i)
        /\ MentionsNote1(pages[i]) /\ PageFacts[pages[i]].len < LenThreshold
        /\ ~sticky[i] /\ labels[i] = "other"
        /\ PageFacts[pages[i + 1]].note1_dot
        /\ PageFacts[pages[i + 1]].len > LenThreshold
        /\ sticky[i + 1] /\ labels[i + 1] = "notes"

\* C9: inside the footnote state, a page whose text contains "SIGNATURES"
\* anywhere makes the state false from that page on, and the pages after it get
\* the label of the ordinary rules until a new entry page.
C9_ExitSoundness ==
    \A i \in 1..Len(labels) :
        /\ (StickyBefore(i) /\ PageFacts[pages[i]].signatures) => ~sticky[i]
        /\ (~StickyBefore(i) /\ ~EntersNotes(FALSE, pages[i]))
               => labels[i] = OrdinaryLabel(pages[i])

\* the second half of C9 alone holds: a page handled outside the state that is
\* no entry page gets the label of the ordinary rules
C9_OrdinaryOutside ==
    \A i \in 1..Len(labels) :
        (~StickyBefore(i) /\ ~EntersNotes(FALSE, pages[i]))
            => labels[i] = OrdinaryLabel(pages[i])

\* the page handled last entered the notes state: notes_start_page is its number
EnteredOnLastPage == labels # <<>> /\ notes_start_page = Len(labels)

\* C17: the notes state is entered on a page if and only if the state is off,
\* the page has "note 1" at the start of a line and its raw text is longer than
\* 1000 characters; a long page with "note 1" only inside a line does not enter.
C17_EntryAtLineStart ==
    labels # <<>> =>
        LET i == Len(labels)
        IN  EnteredOnLastPage <=>
                /\ ~StickyBefore(i)
                /\ PageFacts[pages[i]].note1_line
                /\ PageFacts[pages[i]].len > LenThreshold

\* the entry condition with "note 1" anywhere in the page holds
C17_EntryAnywhere ==
    labels # <<>> =>
        LET i == Len(labels)
        IN  EnteredOnLastPage <=>
                /\ ~StickyBefore(i)
                /\ PageFacts[pages[i]].note1
                /\ PageFacts[pages[i]].len > LenThreshold

\* page n lies in a notes Section of pass 1
InNotesSection(n) ==
    \E j \in NotesIndices(pass1) : pass1[j].start_page <= n /\ n <= pass1[j].end_page

\* C18: a page handled inside the notes state that is no exit page is labelled
\* notes, whatever _classify_page returns for it; every such page, from the
\* entry page up to the next exit page, lies in a notes Section after pass 1.
C18_ForcedNotes ==
    /\ \A i \in 1..Len(labels) : sticky[i] => labels[i] = "notes"
    /\ pc \in {"merge", "done"} =>
           \A i \in 1..Len(labels) : sticky[i] => InNotesSection(i)

\* pass 1 is over; between an entry page and an exit page lie a page that
\* _classify_page calls md&a and one it calls financial_statements, both
\* labelled notes and in a notes Section
C18_Witness ==
    /\ pc = "merge"
    /\ \E i, k, x \in 1..Len(labels) :
           /\ i < x /\ k < x /\ StickyBefore(i) /\ StickyBefore(k)
           /\ PageFacts[pages[i]].in_notes = "md&a"
           /\ PageFacts[pages[k]].in_notes = "financial_statements"
           /\ sticky[i] /\ sticky[k]
           /\ labels[i] = "notes" /\ labels[k] = "notes"
           /\ InNotesSection(i) /\ InNotesSection(k)
           /\ StickyBefore(x) /\ ~sticky[x]

\* the label of the Section that accumulates after page i: the last label
\* among pages 1..i that is not other, and other if there is none
CurLabel(i) ==
    LET named == {k \in 1..i : labels[k] # "other"}
    IN  IF named = {} THEN "other" ELSE labels[Max(named)]

\* page i has a label that differs from the accumulating Section's and is not other
IsChange(i) == labels[i] # "other" /\ labels[i] # CurLabel(i - 1)

\* the pages on which a Section of pass 1 opens
OpeningPages ==
    (IF labels = <<>> THEN {} ELSE {1}) \cup {i \in 1..Len(labels) : IsChange(i)}

\* C19: pass 1 closes the accumulating Section and opens a new one exactly on
\* the pages whose label differs from the current Section's label and is not
\* other; a closed Section spans its opening page to the page before the
\* change; a page labelled other opens no Section; after the last page the
\* accumulating Section is emitted whatever its label; no Section is emitted
\* before a page has been accumulated.
C19_CloseOnChange ==
    /\ pc = "detect" =>
           /\ Len(sections) <= Cardinality(OpeningPages)
           /\ \A j \in 1..Len(sections) :
                  /\ 1 <= sections[j].start_page
                  /\ sections[j].start_page <= sections[j].end_page
                  /\ sections[j].end_page < idx
    /\ pc \in {"merge", "done"} =>
           /\ Len(pass1) = Cardinality(OpeningPages)
           /\ \A j \in 1..Len(pass1) :
                  /\ pass1[j].start_page \in OpeningPages
                  /\ pass1[j].section_type = CurLabel(pass1[j].start_page)
                  /\ pass1[j].end_page =
                         IF j < Len(pass1) THEN pass1[j + 1].start_page - 1
                         ELSE Len(pages)
                  /\ j < Len(pass1) => IsChange(pass1[j + 1].start_page)
                  /\ pass1[j].start_page <= pass1[j].end_page

\* pass 1 is over: page 1 changed the label before any page was accumulated,
\* a later page changed it again, a page labelled other was appended to a
\* named Section, and the last Section was emitted after the last page
C19_Witness ==
    /\ pc = "merge"
    /\ Len(pass1) >= 2
    /\ IsChange(1)
    /\ pass1[1].start_page = 1
    /\ \E i \in 2..Len(labels) :
           /\ labels[i] = "other"
           /\ i \notin OpeningPages
           /\ \E j \in 1..Len(pass1) :
                  /\ pass1[j].start_page < i /\ i <= pass1[j].end_page
                  /\ pass1[j].section_type # "other"
    /\ pass1[Len(pass1)].end_page = Len(pages)

\* the notes Section of the final list
MergedNotes == sections[CHOOSE i \in NotesIndices(sections) : TRUE]

\* min_start and the first max_end: over the notes Sections of pass 1
NotesMinStart == Min({pass1[i].start_page : i \in NotesIndices(pass1)})
NotesMaxEnd == Max({pass1[i].end_page : i \in NotesIndices(pass1)})

\* some page of the Section has the pattern; no match spans two pages, the
\* marker lies between them
SectionHas(section, fact) ==
    \E n \in section.start_page..section.end_page :
        IF fact = "note_dot" THEN PageFacts[pages[n]].note_dot
        ELSE PageFacts[pages[n]].note_dot_colon

\* max_end after the first k Sections of pass 1 were visited, when a
\* financial_statements Section counts if it has the pattern named by fact
EndAfter(fact) ==
    LET e[k \in 0..Len(pass1)] ==
            IF k = 0 THEN NotesMaxEnd
            ELSE IF /\ pass1[k].section_type = "financial_statements"
                    /\ NotesMinStart <= pass1[k].start_page
                    /\ pass1[k].start_page <= e[k - 1] + AbsorbWindow
                    /\ SectionHas(pass1[k], fact)
                 THEN Max({e[k - 1], pass1[k].end_page})
                 ELSE e[k - 1]
    IN  e[Len(pass1)]

\* C20: the merged notes Section starts at the least start_page of the notes
\* Sections and ends at the greatest of their end_page and of the end_page of
\* every financial_statements Section that starts within
\* [min_start, max_end + 5], max_end as extended so far in list order, and
\* contains a "note <number>." pattern; a financial_statements Section that
\* starts later or lacks the pattern does not extend the range.
C20_MergeRange ==
    (Done /\ NotesIndices(pass1) # {}) =>
        /\ MergedNotes.start_page = NotesMinStart
        /\ MergedNotes.end_page = EndAfter("note_dot")

\* the same with the pattern "note <number>" followed by a period or a colon
C20_MergeRangeAsCoded ==
    (Done /\ NotesIndices(pass1) # {}) =>
        /\ MergedNotes.start_page = NotesMinStart
        /\ MergedNotes.end_page = EndAfter("note_dot_colon")

\* a financial_statements Section with "note 3." that starts more than 5 pages
\* after the end of the range is left outside
C20_TooFar ==
    /\ Done /\ NotesIndices(pass1) # {}
    /\ \E k \in 1..Len(pass1) :
           /\ pass1[k].section_type = "financial_statements"
           /\ SectionHas(pass1[k], "note_dot")
           /\ pass1[k].start_page > MergedNotes.end_page + AbsorbWindow

\* a financial_statements Section is absorbed that lies within 5 pages of the
\* range only after an earlier one has extended it
C20_Cascade ==
    /\ Done /\ NotesIndices(pass1) # {}
    /\ \E k \in 1..Len(pass1) :
           /\ pass1[k].section_type = "financial_statements"
           /\ pass1[k].start_page > NotesMaxEnd + AbsorbWindow
           /\ pass1[k].end_page = MergedNotes.end_page

\* the marker and the text of the pages a..b, in ascending page order
RECURSIVE PagesText(_, _, _)
PagesText(pgs, a, b) ==
    IF a > b THEN <<>> ELSE PageBlock(a, pgs[a]) \o PagesText(pgs, a + 1, b)

\* C16: the text of every Section of the final list, the merged notes Section
\* included, is the concatenation in ascending page order of the [PAGE n]
\* marker and the text of page n for exactly the pages start_page..end_page,
\* and 1 <= start_page <= end_page <= number of pages.
C16_TextIsPageRange ==
    Done => \A i \in 1..Len(sections) :
                /\ 1 <= sections[i].start_page
                /\ sections[i].start_page <= sections[i].end_page
                /\ sections[i].end_page <= Len(pages)
                /\ sections[i].text =
                       PagesText(pages, sections[i].start_page, sections[i].end_page)

\* the merged notes Section holds a page that pass 1 put in no notes Section,
\* followed by a page it labelled financial_statements
C16_Witness ==
    /\ Done
    /\ \E i \in NotesIndices(sections) : \E n, k \in 1..Len(pages) :
           /\ sections[i].start_page < n /\ n < k /\ k <= sections[i].end_page
           /\ \A j \in NotesIndices(pass1) :
                  ~(pass1[j].start_page <= n /\ n <= pass1[j].end_page)
           /\ labels[k] = "financial_statements"
           /\ sections[i].text =
                  PagesText(pages, sections[i].start_page, sections[i].end_page)

-----------------------------------------------------------------------------
(* _verify_evidence of stage2_verbatim.py and of stage2_gemini.py.  Here a  *)
(* text is a sequence of characters.                                        *)

IsSpace(c) == c \in {" ", "\n", "\t"}

UpperToLower ==
    ("A" :> "a") @@ ("B" :> "b") @@ ("C" :> "c") @@ ("D" :> "d") @@ ("E" :> "e") @@
    ("F" :> "f") @@ ("G" :> "g") @@ ("H" :> "h") @@ ("I" :> "i") @@ ("J" :> "j") @@
    ("K" :> "k") @@ ("L" :> "l") @@ ("M" :> "m") @@ ("N" :> "n") @@ ("O" :> "o") @@
    ("P" :> "p") @@ ("Q" :> "q") @@ ("R" :> "r") @@ ("S" :> "s") @@ ("T" :> "t") @@
    ("U" :> "u") @@ ("V" :> "v") @@ ("W" :> "w") @@ ("X" :> "x") @@ ("Y" :> "y") @@
    ("Z" :> "z")

\* str.lower()
LowerStr(str) ==
    [i \in 1..Len(str) |->
        IF str[i] \in DOMAIN UpperToLower THEN UpperToLower[str[i]] ELSE str[i]]

\* str.strip()
Strip(str) ==
    LET inked == {i \in 1..Len(str) : ~IsSpace(str[i])}
    IN  IF inked = {} THEN <<>> ELSE SubSeq(str, Min(inked), Max(inked))

\* re.sub(r'\s+', ' ', str): every maximal run of whitespace becomes one space
CollapseWs(str) ==
    LET marked == [i \in 1..Len(str) |->
                      IF ~IsSpace(str[i]) THEN str[i]
                      ELSE IF i > 1 /\ IsSpace(str[i - 1]) THEN "" ELSE " "]
    IN  SelectSeq(marked, LAMBDA c : c # "")

\* str[:n]
Prefix(str, n) == SubSeq(str, 1, IF Len(str) < n THEN Len(str) ELSE n)

\* needle in hay
Contains(hay, needle) ==
    \E i \in 0..(Len(hay) - Len(needle)) :
        \A k \in 1..Len(needle) : hay[i + k] = needle[k]

\* set(str.split()): the maximal runs of characters that are not whitespace
Words(str) ==
    LET starts == {i \in 1..Len(str) :
                      ~IsSpace(str[i]) /\ (i = 1 \/ IsSpace(str[i - 1]))}
        EndOf(i) == Min({j \in i..Len(str) : j = Len(str) \/ IsSpace(str[j + 1])})
    IN  {SubSeq(str, i, EndOf(i)) : i \in starts}

\* len(evidence_text) < 20
MinEvidenceLen == 20

\* evidence_clean[:100]
ExactPrefixLen == 100

\* len(w) > 3 in stage2_verbatim.py, len(word) > 4 in stage2_gemini.py
VerbatimMinWord == 3
GeminiMinWord == 4

\* matches >= len(evidence_words) * 0.6, in tenths
FuzzyTenths == 6

\* mutant: the candidate is not lowercased
EvidenceClean_NoLower(text) == CollapseWs(Strip(text))

\* re.sub(r'\s+', ' ', evidence_text.lower().strip())
EvidenceClean(text) == CollapseWs(Strip(LowerStr(text)))

\* re.sub(r'\s+', ' ', source_text.lower())
SourceClean(text) == CollapseWs(LowerStr(text))

\* mutant: the whole candidate is looked for in the source
ExactMatch_WholeCandidate(evidence_clean, source_clean) ==
    Contains(source_clean, evidence_clean)

\* the direct substring match on the first 100 characters
ExactMatch(evidence_clean, source_clean) ==
    Contains(source_clean, Prefix(evidence_clean, ExactPrefixLen))

\* mutant: no test of the length of the candidate
VerbatimVerify_NoLengthGuard(text, source) ==
    LET evidence_clean == EvidenceClean(text)
        source_clean == SourceClean(source)
        evidence_words == {w \in Words(evidence_clean) : Len(w) > VerbatimMinWord}
        matches == Cardinality({w \in evidence_words : Contains(source_clean, w)})
    IN  IF ExactMatch(evidence_clean, source_clean) THEN TRUE
        ELSE IF evidence_words = {} THEN FALSE
        ELSE 10 * matches >= FuzzyTenths * Cardinality(evidence_words)

\* VerbatimExtractor._verify_evidence
VerbatimVerify(text, source) ==
    IF Len(text) < MinEvidenceLen THEN FALSE
    ELSE LET evidence_clean == EvidenceClean(text)
             source_clean == SourceClean(source)
             evidence_words ==
                 {w \in Words(evidence_clean) : Len(w) > VerbatimMinWord}
             matches ==
                 Cardinality({w \in evidence_words : Contains(source_clean, w)})
         IN  IF ExactMatch(evidence_clean, source_clean) THEN TRUE
             ELSE IF evidence_words = {} THEN FALSE
             ELSE 10 * matches >= FuzzyTenths * Cardinality(evidence_words)

\* GeminiVerbatimExtractor._verify_evidence
GeminiVerify(text, source) ==
    IF Len(text) < MinEvidenceLen THEN FALSE
    ELSE LET evidence_clean == EvidenceClean(text)
             source_clean == SourceClean(source)
             evidence_words == Words(evidence_clean)
             matches ==
                 Cardinality({w \in evidence_words :
                                 Contains(source_clean, w) /\ Len(w) > GeminiMinWord})
         IN  IF ExactMatch(evidence_clean, source_clean) THEN TRUE
             ELSE 10 * matches >= FuzzyTenths * Cardinality(evidence_words)

-----------------------------------------------------------------------------
(* The calls of _verify_evidence of the model: the source is a document text *)
(* of at most MaxSegs segments, the candidate either a run of characters     *)
(* copied from the source or a text made up by the generative process        *)

\* 'Deferred  Tax\nassets were recognized ' (37 characters)
SegA ==
    <<"D", "e", "f", "e", "r", "r", "e", "d", " ", " ", "T", "a", "x", "\n", "a",
      "s", "s", "e", "t", "s", " ", "w", "e", "r", "e", " ", "r", "e", "c", "o", "g",
      "n", "i", "z", "e", "d", " ">>

\* 'at Fair Value\tof 31 million in 2023. ' (37 characters)
SegB ==
    <<"a", "t", " ", "F", "a", "i", "r", " ", "V", "a", "l", "u", "e", "\t", "o",
      "f", " ", "3", "1", " ", "m", "i", "l", "l", "i", "o", "n", " ", "i", "n", " ",
      "2", "0", "2", "3", ".", " ">>

\* 'See Note 5.\n \n \n \n \n \n \n \n \n \n \n \n  ' (36 characters)
SegC ==
    <<"S", "e", "e", " ", "N", "o", "t", "e", " ", "5", ".", "\n", " ", "\n", " ",
      "\n", " ", "\n", " ", "\n", " ", "\n", " ", "\n", " ", "\n", " ", "\n", " ",
      "\n", " ", "\n", " ", "\n", " ", " ">>

\* '                      \n\t' (24 characters)
FabBlank ==
    <<" ", " ", " ", " ", " ", " ", " ", " ", " ", " ", " ", " ", " ", " ", " ", " ",
      " ", " ", " ", " ", " ", " ", "\n", "\t">>

\* 'a of to we it is go on up' (25 characters)
FabShort ==
    <<"a", " ", "o", "f", " ", "t", "o", " ", "w", "e", " ", "i", "t", " ", "i", "s",
      " ", "g", "o", " ", "o", "n", " ", "u", "p">>

\* 'eferred ssets ecognized alue' (28 characters)
FabFragments ==
    <<"e", "f", "e", "r", "r", "e", "d", " ", "s", "s", "e", "t", "s", " ", "e", "c",
      "o", "g", "n", "i", "z", "e", "d", " ", "a", "l", "u", "e">>

\* 'Quantum zebra juggles xylophones' (32 characters)
FabUnrelated ==
    <<"Q", "u", "a", "n", "t", "u", "m", " ", "z", "e", "b", "r", "a", " ", "j", "u",
      "g", "g", "l", "e", "s", " ", "x", "y", "l", "o", "p", "h", "o", "n", "e", "s">>

\* 'deferred assets zebra quantum juggles' (37 characters)
FabHalf ==
    <<"d", "e", "f", "e", "r", "r", "e", "d", " ", "a", "s", "s", "e", "t", "s", " ",
      "z", "e", "b", "r", "a", " ", "q", "u", "a", "n", "t", "u", "m", " ", "j", "u",
      "g", "g", "l", "e", "s">>

\* 'DEFERRED TAX ASSETS   WERE RECOGNIZED' (37 characters)
FabCased ==
    <<"D", "E", "F", "E", "R", "R", "E", "D", " ", "T", "A", "X", " ", "A", "S", "S",
      "E", "T", "S", " ", " ", " ", "W", "E", "R", "E", " ", "R", "E", "C", "O", "G",
      "N", "I", "Z", "E", "D">>

Segments == {SegA, SegB, SegC}

RECURSIVE Concat(_)
Concat(parts) == IF parts = <<>> THEN <<>> ELSE Head(parts) \o Concat(Tail(parts))

SourceTexts == {Concat(parts) : parts \in UNION {[1..n -> Segments] : n \in 0..MaxSegs}}

\* the lengths of the copied candidates: around the two thresholds of the code
CopiedLens == {19, 20, 100, 101}

CopiedFrom(source) ==
    {SubSeq(source, p[1], p[1] + p[2] - 1) :
        p \in {q \in (1..Len(source)) \X CopiedLens : q[1] + q[2] - 1 <= Len(source)}}

\* the empty candidate
FabEmpty == <<>>

\* ' zebra quantum juggles xylophones wombat kestrel nebula' (55 characters)
FabTail ==
    <<" ", "z", "e", "b", "r", "a", " ", "q", "u", "a", "n", "t", "u", "m", " ", "j", "u",
      "g", "g", "l", "e", "s", " ", "x", "y", "l", "o", "p", "h", "o", "n", "e", "s", " ",
      "w", "o", "m", "b", "a", "t", " ", "k", "e", "s", "t", "r", "e", "l", " ", "n", "e",
      "b", "u", "l", "a">>

\* candidates that go on after a copied run of 100 characters with words the
\* source does not have
TailedFrom(source) ==
    {SubSeq(source, p, p + ExactPrefixLen - 1) \o FabTail :
        p \in {q \in 1..Len(source) : q + ExactPrefixLen - 1 <= Len(source)}}

\* 'deferred assets of to we it is go' (33 characters)
FabShortWords ==
    <<"d", "e", "f", "e", "r", "r", "e", "d", " ", "a", "s", "s", "e", "t", "s", " ", "o",
      "f", " ", "t", "o", " ", "w", "e", " ", "i", "t", " ", "i", "s", " ", "g", "o">>

MadeUp ==
    {FabEmpty, FabBlank, FabShort, FabFragments, FabUnrelated, FabHalf, FabCased,
     FabShortWords}


\* the parser is not part of the calls of _verify_evidence
ParserIdle ==
    /\ pc = "idle"
    /\ pages = <<>>
    /\ sections = <<>>
    /\ idx = 1
    /\ current_type = "other"
    /\ current_start = 1
    /\ section_text = <<>>
    /\ in_notes_section = FALSE
    /\ notes_start_page = 0
    /\ labels = <<>>
    /\ sticky = <<>>
    /\ pass1 = <<>>

VerifyInit ==
    /\ source_text \in SourceTexts
    /\ evidence_text \in CopiedFrom(source_text)
                          \cup CopiedFrom(SourceClean(source_text)) \cup MadeUp
                          \cup TailedFrom(SourceClean(source_text))
    /\ verified_by = {}
    /\ verbatim_result = FALSE
    /\ gemini_result = FALSE

InitVerify == ParserIdle /\ VerifyInit /\ BlockIdle /\ ChunkIdle /\ BatchIdle /\ ExtractIdle
    /\ NotesIdle
    /\ ScoreIdle
    /\ ClassifyIdle

\* a call of VerbatimExtractor._verify_evidence(evidence_text, source_text)
VerbatimVerifyCall ==
    /\ "verbatim" \notin verified_by
    /\ verbatim_result' = VerbatimVerify(evidence_text, source_text)
    /\ verified_by' = verified_by \cup {"verbatim"}
    /\ UNCHANGED <<evidence_text, source_text, gemini_result>>
    /\ UNCHANGED notVerify

\* a call of GeminiVerbatimExtractor._verify_evidence(evidence_text, source_text)
GeminiVerifyCall ==
    /\ "gemini" \notin verified_by
    /\ gemini_result' = GeminiVerify(evidence_text, source_text)
    /\ verified_by' = verified_by \cup {"gemini"}
    /\ UNCHANGED <<evidence_text, source_text, verbatim_result>>
    /\ UNCHANGED notVerify

NextVerify == VerbatimVerifyCall \/ GeminiVerifyCall

SpecVerify == InitVerify /\ [][NextVerify]_vars

-----------------------------------------------------------------------------
(* Properties of _verify_evidence *)

BothVerified == verified_by = {"verbatim", "gemini"}

\* C5: verify returns true, in both implementations, for every candidate of at
\* least 20 characters that is a run of characters of the source, as it is or
\* with its whitespace normalized and lowercased, whatever its length beyond
\* 100 characters and wherever it sits in the source.
C5_RoundTrip ==
    (/\ Len(evidence_text) >= MinEvidenceLen
     /\ \/ Contains(source_text, evidence_text)
        \/ Contains(SourceClean(source_text), evidence_text))
        => /\ ("verbatim" \in verified_by => verbatim_result)
           /\ ("gemini" \in verified_by => gemini_result)

\* a copied candidate of more than 100 characters that starts inside the
\* source, in a run of whitespace, and was accepted by both implementations
C5_Witness ==
    /\ BothVerified
    /\ Len(evidence_text) > ExactPrefixLen
    /\ Contains(source_text, evidence_text)
    /\ IsSpace(evidence_text[1])
    /\ ~Contains(Prefix(source_text, Len(evidence_text)), evidence_text)
    /\ evidence_text # EvidenceClean(evidence_text)
    /\ verbatim_result /\ gemini_result

\* C15: verify returns false, in both implementations, whenever the candidate
\* is empty or shorter than 20 characters, whatever the source, also when the
\* candidate occurs verbatim in the source.
C15_ShortRejected ==
    Len(evidence_text) < MinEvidenceLen =>
        /\ ("verbatim" \in verified_by => ~verbatim_result)
        /\ ("gemini" \in verified_by => ~gemini_result)

\* a candidate of 19 characters copied from the source, rejected by both
C15_Witness ==
    /\ BothVerified
    /\ Len(evidence_text) = MinEvidenceLen - 1
    /\ Contains(source_text, evidence_text)
    /\ ~IsSpace(evidence_text[1])
    /\ ~verbatim_result /\ ~gemini_result

\* the first 100 characters of the normalized candidate occur in the
\* normalized source
PrefixInSource ==
    Contains(SourceClean(source_text),
             Prefix(EvidenceClean(evidence_text), ExactPrefixLen))

\* C24 as stated: verify returns true whenever the first 100 characters of the
\* normalized candidate occur in the normalized source, whatever follows them
\* (read of the candidates that are not empty).
C24_ExactPrefix_Original ==
    (evidence_text # <<>> /\ PrefixInSource) =>
        /\ ("verbatim" \in verified_by => verbatim_result)
        /\ ("gemini" \in verified_by => gemini_result)

\* C24 (amended): for a candidate of at least 20 characters, verify returns
\* true whenever the first 100 characters of the normalized candidate occur in
\* the normalized source, whatever follows them.
C24_ExactPrefix ==
    (Len(evidence_text) >= MinEvidenceLen /\ PrefixInSource) =>
        /\ ("verbatim" \in verified_by => verbatim_result)
        /\ ("gemini" \in verified_by => gemini_result)

\* both verifiers accepted a candidate whose first 100 normalized characters
\* are a run of the source and whose rest is not in the source; too few of
\* its words are in the source for the word test of either verifier
C24_Witness ==
    /\ BothVerified
    /\ Len(EvidenceClean(evidence_text)) > ExactPrefixLen
    /\ PrefixInSource
    /\ ~Contains(SourceClean(source_text), EvidenceClean(evidence_text))
    /\ LET words == Words(EvidenceClean(evidence_text))
           long == {w \in words : Len(w) > VerbatimMinWord}
       IN  /\ 10 * Cardinality({w \in long : Contains(SourceClean(source_text), w)})
                 < FuzzyTenths * Cardinality(long)
           /\ 10 * Cardinality({w \in words : /\ Len(w) > GeminiMinWord
                                               /\ Contains(SourceClean(source_text), w)})
                 < FuzzyTenths * Cardinality(words)
    /\ verbatim_result /\ gemini_result

\* the fuzzy rule: among the unique words of the normalized candidate that are
\* longer than min_len, at least 0.6 occur in the normalized source
FuzzyRule(min_len) ==
    LET long == {w \in Words(EvidenceClean(evidence_text)) : Len(w) > min_len}
        found == {w \in long : Contains(SourceClean(source_text), w)}
    IN  long # {} /\ 10 * Cardinality(found) >= FuzzyTenths * Cardinality(long)

\* the candidate passes the length guard and fails the exact check
ExactCheckFails == Len(evidence_text) >= MinEvidenceLen /\ ~PrefixInSource

\* C25: when the exact check fails, both verifiers apply the same fuzzy rule
\* and differ only in the minimum word length (longer than 3, longer than 4):
\* the result is true iff at least 0.6 of the candidate's unique words longer
\* than the minimum occur in the normalized source; shorter words count
\* neither as matched nor in the total.
C25_SameFuzzyRule ==
    ExactCheckFails =>
        /\ ("verbatim" \in verified_by => verbatim_result = FuzzyRule(VerbatimMinWord))
        /\ ("gemini" \in verified_by => gemini_result = FuzzyRule(GeminiMinWord))

\* the rule holds of the verifier of stage2_verbatim.py
C25_VerbatimFuzzy ==
    (ExactCheckFails /\ "verbatim" \in verified_by) =>
        verbatim_result = FuzzyRule(VerbatimMinWord)

\* the candidate and the source have no word in common (after normalization)
NoLexicalOverlap ==
    Words(EvidenceClean(evidence_text)) \cap Words(SourceClean(source_text)) = {}

\* C6: verify returns false, in both implementations, for every candidate none
\* of whose words occurs as a word of the source.
C6_Rejection ==
    NoLexicalOverlap =>
        /\ ("verbatim" \in verified_by => ~verbatim_result)
        /\ ("gemini" \in verified_by => ~gemini_result)


-----------------------------------------------------------------------------
(* _extract_block of stage2_verbatim.py and of stage2_gemini.py, from the    *)
(* answer of the generative process on                                       *)

\* the categories configured for the block, in the order of the dict
BlockCategories == <<"debt", "leases">>

\* the category names the generative process may write
ResponseCategories == {"debt", "leases", "goodwill"}

\* full_text of the document, and the section_text handed to the block
BlockSource == SegA \o SegB

\* the quotes the generative process may return: one copied from the source,
\* one made up
Quotes == {SubSeq(BlockSource, 1, 26), FabUnrelated}

QuoteLists == UNION {[1..n -> [text : Quotes]] : n \in 0..MaxQuotes}

ResponseEntries == [category : ResponseCategories, evidence : QuoteLists]

\* the answers: JSON with a list of extractions, or one of the failures
Responses ==
    {[kind |-> "json", extractions |-> es] :
        es \in UNION {[1..n -> ResponseEntries] : n \in 0..MaxEntries}}
    \cup {[kind |-> k, extractions |-> <<>>] : k \in {"api_error", "no_json", "bad_json"}}

\* result_json.get('extractions', []) after the try block: every failure is
\* replaced by {"extractions": [], "audit": []}
ResultExtractions(response) ==
    IF response.kind = "json" THEN response.extractions ELSE <<>>

\* extraction_map.get(cat_name, {'evidence': []}): the dict comprehension keeps,
\* for each category name, the last entry that names it
ExtractionFor(extractions, cat_name) ==
    LET named == {i \in 1..Len(extractions) : extractions[i].category = cat_name}
    IN  IF named = {} THEN <<>> ELSE extractions[Max(named)].evidence

\* the Evidence objects built for one category in stage2_verbatim.py
VerbatimEvidence(candidates, full_text) ==
    [k \in 1..Len(candidates) |->
        [text |-> candidates[k].text,
         verified |-> VerbatimVerify(candidates[k].text, full_text)]]

\* the Evidence objects built for one category in stage2_gemini.py
GeminiEvidence(candidates, block_text) ==
    [k \in 1..Len(candidates) |->
        LET verified == GeminiVerify(candidates[k].text, block_text)
        IN  [text |-> candidates[k].text,
             flags |-> IF ~verified THEN <<"UNVERIFIED">> ELSE <<>>,
             verified |-> verified]]

\* mutant: one CategoryExtraction per entry of the answer
VerbatimExtractBlock_PerEntry(response, categories, full_text) ==
    LET entries == ResultExtractions(response)
    IN  [c \in 1..Len(entries) |->
            [category |-> entries[c].category,
             evidence |-> VerbatimEvidence(entries[c].evidence, full_text)]]

\* VerbatimExtractor._extract_block: one CategoryExtraction per configured
\* category
VerbatimExtractBlock(response, categories, full_text) ==
    [c \in 1..Len(categories) |->
        [category |-> categories[c],
         evidence |->
             VerbatimEvidence(ExtractionFor(ResultExtractions(response), categories[c]),
                              full_text)]]

\* GeminiVerbatimExtractor._extract_block
GeminiExtractBlock(response, categories, block_text) ==
    [c \in 1..Len(categories) |->
        [category |-> categories[c],
         evidence |->
             GeminiEvidence(ExtractionFor(ResultExtractions(response), categories[c]),
                            block_text)]]

BlockInit ==
    /\ llm_response \in Responses
    /\ block_done = {}
    /\ verbatim_block = <<>>
    /\ gemini_block = <<>>

InitBlock == ParserIdle /\ VerifyIdle /\ BlockInit /\ ChunkIdle /\ BatchIdle /\ ExtractIdle
    /\ NotesIdle
    /\ ScoreIdle
    /\ ClassifyIdle

VerbatimBlockCall ==
    /\ "verbatim" \notin block_done
    /\ verbatim_block' = VerbatimExtractBlock(llm_response, BlockCategories, BlockSource)
    /\ block_done' = block_done \cup {"verbatim"}
    /\ UNCHANGED <<llm_response, gemini_block>>
    /\ UNCHANGED notBlock

GeminiBlockCall ==
    /\ "gemini" \notin block_done
    /\ gemini_block' = GeminiExtractBlock(llm_response, BlockCategories, BlockSource)
    /\ block_done' = block_done \cup {"gemini"}
    /\ UNCHANGED <<llm_response, verbatim_block>>
    /\ UNCHANGED notBlock

NextBlock == VerbatimBlockCall \/ GeminiBlockCall

SpecBlock == InitBlock /\ [][NextBlock]_vars

-----------------------------------------------------------------------------
(* Properties of _extract_block *)

\* the output holds the quote with the result of its verification
Surfaced(out, text, verified) ==
    \E c \in 1..Len(out) : \E k \in 1..Len(out[c].evidence) :
        /\ out[c].evidence[k].text = text
        /\ out[c].evidence[k].verified = verified

\* C7: every candidate quote the generative process returns for the block is in
\* the block's output evidence with the boolean result of its verification (a
\* quote that fails verification is kept and flagged); none is discarded,
\* whatever category name it is listed under and whichever entry it is in.
C7_NoCandidateDropped ==
    \A e \in 1..Len(llm_response.extractions) :
        \A k \in 1..Len(llm_response.extractions[e].evidence) :
            LET text == llm_response.extractions[e].evidence[k].text
            IN  /\ ("verbatim" \in block_done =>
                       Surfaced(verbatim_block, text, VerbatimVerify(text, BlockSource)))
                /\ ("gemini" \in block_done =>
                       Surfaced(gemini_block, text, GeminiVerify(text, BlockSource)))


-----------------------------------------------------------------------------
(* VerbatimExtractor._extract_relevant_chunks and _score_chunk.  Here a text *)
(* is a sequence of lines, joined by newlines; a line is a record of its     *)
(* length in characters, the page number if it is a [PAGE n] marker, the     *)
(* keyword occurrences in it and the scoring signals it holds.  A signal is  *)
(* taken to lie within one line.                                             *)

\* chunk_size and max_chunks, the defaults of the signature
ChunkSize == 3000
MaxChunks == 15

\* text[max(0, start-200):start]
MarkerLookback == 200

\* range_key = (start // 1000, end // 1000)
RangeUnit == 1000

\* keywords shorter than 3 are skipped; up to 4 they match whole words only
MinKeywordLen == 3
WholeWordLen == 4

EmptyLine == [name |-> "", len |-> 0, page |-> 0, hits |-> <<>>, signals |-> {}]

MarkerLine(n) ==
    [name |-> PageMarker(n), len |-> Len(PageMarker(n)), page |-> n, hits |-> <<>>,
     signals |-> {}]

\* the lines of page text of the model
LibraryLine(item) ==
    CASE item = "fill50" ->
           [name |-> item, len |-> 50, page |-> 0, hits |-> <<>>, signals |-> {}]
      [] item = "fill300" ->
           [name |-> item, len |-> 300, page |-> 0, hits |-> <<>>, signals |-> {}]
      [] item = "fill1600" ->
           [name |-> item, len |-> 1600, page |-> 0, hits |-> <<>>, signals |-> {}]
      \* "goodwill impairment of $31 million was taxable"
      [] item = "goodwill" ->
           [name |-> item, len |-> 46, page |-> 0,
            hits |-> <<[kw |-> "goodwill", col |-> 0, whole |-> TRUE],
                       [kw |-> "tax", col |-> 39, whole |-> FALSE]>>,
            signals |-> {"dollar", "impairment"}]
      \* "lease impairment of $5 million"
      [] item = "lease" ->
           [name |-> item, len |-> 30, page |-> 0,
            hits |-> <<[kw |-> "lease", col |-> 0, whole |-> TRUE]>>,
            signals |-> {"dollar", "impairment"}]
      \* "deferred tax assets"
      [] item = "tax" ->
           [name |-> item, len |-> 19, page |-> 0,
            hits |-> <<[kw |-> "tax", col |-> 9, whole |-> TRUE]>>,
            signals |-> {"deferred tax"}]

Items == {"page", "fill50", "fill300", "fill1600", "goodwill", "lease", "tax"}

\* the page number of the first page of the section
FirstPage == 42

\* Section.text as the parser builds it: "\n\n[PAGE n]\n" and the page text,
\* page after page; a page break that is followed by no line is an empty page
RECURSIVE BuildFrom(_, _, _)
BuildFrom(items, k, n) ==
    IF k > Len(items) THEN <<>>
    ELSE IF items[k] = "page"
         THEN (IF k = 1 THEN <<EmptyLine>> ELSE <<>>)
              \o <<EmptyLine, MarkerLine(n)>>
              \o (IF k = Len(items) \/ items[k + 1] = "page" THEN <<EmptyLine>> ELSE <<>>)
              \o BuildFrom(items, k + 1, n + 1)
         ELSE <<LibraryLine(items[k])>> \o BuildFrom(items, k + 1, n)

SectionTexts ==
    {BuildFrom(items, 1, FirstPage) :
        items \in {it \in UNION {[1..n -> Items] : n \in 1..MaxItems} : it[1] = "page"}}

KeywordLists == {<<"goodwill">>, <<"ip", "tax", "goodwill">>, <<"lease", "goodwill">>}

\* the offset of the first character of every line
LineStarts(text) ==
    LET off[i \in 1..Len(text)] ==
            IF i = 1 THEN 0 ELSE off[i - 1] + text[i - 1].len + 1
    IN  off

\* len(text)
TotalLen(text) ==
    IF text = <<>> THEN 0 ELSE LineStarts(text)[Len(text)] + text[Len(text)].len

\* the offsets of the newline characters
Newlines(text) ==
    {LineStarts(text)[i] + text[i].len : i \in 1..(Len(text) - 1)}

\* sorted(keywords, key=len, reverse=True): stable
RECURSIVE InsertByLen(_, _)
InsertByLen(sorted, kw) ==
    IF sorted = <<>> THEN <<kw>>
    ELSE IF Len(Head(sorted)) >= Len(kw)
         THEN <<Head(sorted)>> \o InsertByLen(Tail(sorted), kw)
         ELSE <<kw>> \o sorted

\* mutant: the keywords are taken in the order of the list
SortedKeywords_AsGiven(keywords) == keywords

RECURSIVE SortedKeywords(_)
SortedKeywords(keywords) ==
    IF keywords = <<>> THEN <<>>
    ELSE InsertByLen(SortedKeywords(SubSeq(keywords, 1, Len(keywords) - 1)),
                     keywords[Len(keywords)])

\* re.finditer(pattern, text_lower): [start, end) of the occurrences of the
\* keyword, in text order; a keyword of up to 4 characters matches between
\* word boundaries only
MatchesOf(text, keyword) ==
    LET off == LineStarts(text)
        found == {<<off[i] + text[i].hits[h].col,
                    off[i] + text[i].hits[h].col + Len(keyword)>> :
                     <<i, h>> \in {p \in (1..Len(text)) \X (1..2) :
                                     /\ p[2] <= Len(text[p[1]].hits)
                                     /\ text[p[1]].hits[p[2]].kw = keyword
                                     /\ (Len(keyword) <= WholeWordLen =>
                                            text[p[1]].hits[p[2]].whole)}}
        ordered[n \in 0..Cardinality(found)] ==
            IF n = 0 THEN <<>>
            ELSE LET rest == found \ {ordered[n - 1][k] : k \in 1..(n - 1)}
                 IN  Append(ordered[n - 1],
                            CHOOSE m \in rest : \A x \in rest : m[1] <= x[1])
    IN  ordered[Cardinality(found)]

\* the window of one match: clamped, then snapped outwards to a newline
WindowStart(text, match_start, chunk_size) ==
    LET start0 == Max({0, match_start - chunk_size \div 2})
    IN  Max({0} \cup {p \in Newlines(text) : p <= start0})

WindowEnd(text, match_end, chunk_size) ==
    LET end0 == Min({TotalLen(text), match_end + chunk_size \div 2})
    IN  Min({TotalLen(text)} \cup {p \in Newlines(text) : p >= end0})

\* the windows of all matches, in the order the two loops visit them
RECURSIVE WindowsFrom(_, _, _, _)
WindowsFrom(text, keywords, k, chunk_size) ==
    IF k > Len(keywords) THEN <<>>
    ELSE LET kw == keywords[k]
             ms == IF Len(kw) < MinKeywordLen THEN <<>> ELSE MatchesOf(text, kw)
         IN  [m \in 1..Len(ms) |->
                 [keyword |-> kw,
                  start |-> WindowStart(text, ms[m][1], chunk_size),
                  end |-> WindowEnd(text, ms[m][2], chunk_size)]]
             \o WindowsFrom(text, keywords, k + 1, chunk_size)

\* the lines that text[start:end].strip() begins and ends with
FirstLineOf(text, start) ==
    LET off == LineStarts(text)
        inside == {i \in 1..Len(text) : off[i] >= start /\ text[i].len > 0}
    IN  Min(inside)

LastLineOf(text, end) ==
    LET off == LineStarts(text)
        inside == {i \in 1..Len(text) : off[i] + text[i].len <= end /\ text[i].len > 0}
    IN  Max(inside)

\* re.search(r'\[PAGE\s+(\d+)\]', text[max(0, start-200):start]): the first
\* marker that lies within the 200 characters before the window, "" if none
PageMarkerBefore(text, start) ==
    LET off == LineStarts(text)
        found == {i \in 1..Len(text) :
                     /\ text[i].page > 0
                     /\ off[i] >= Max({0, start - MarkerLookback})
                     /\ off[i] + text[i].len <= start}
    IN  IF found = {} THEN "" ELSE text[Min(found)].name

\* page_marker in chunk
ChunkContains(text, first, last, marker) ==
    \E i \in first..last : text[i].page > 0 /\ text[i].name = marker

PolicyTerms ==
    {"fair value", "consideration", "recognized", "transferred", "aggregate",
     "purchase price", "allocated", "carrying amount", "useful life", "depreciation",
     "amortization", "impairment", "deferred tax", "valuation allowance",
     "intangible asset", "straight-line", "weighted average", "cost basis"}

GenericTerms ==
    {"may pursue", "could result", "risks and uncertainties", "forward-looking",
     "no assurance", "cannot predict", "subject to change", "may not be indicative"}

\* VerbatimExtractor._score_chunk, on the signals the chunk holds
ScoreChunk(signals) ==
    (IF "dollar" \in signals THEN 30 ELSE 0)
    + (IF "full_date" \in signals THEN 20
       ELSE IF "month_year" \in signals THEN 15 ELSE 0)
    + (IF "fiscal_year" \in signals THEN 10 ELSE 0)
    + (IF "december_31" \in signals THEN 10 ELSE 0)
    + 5 * Cardinality(PolicyTerms \cap signals)
    + (IF "table" \in signals THEN 15 ELSE 0)
    - 10 * Cardinality(GenericTerms \cap signals)
    - (IF "table of contents" \in signals THEN 20 ELSE 0)

\* the dict appended to scored_chunks for one window that is kept
ScoredChunk(text, window) ==
    LET first == FirstLineOf(text, window.start)
        last == LastLineOf(text, window.end)
        page_marker == PageMarkerBefore(text, window.start)
        prefix == IF page_marker # "" /\ ~ChunkContains(text, first, last, page_marker)
                  THEN page_marker ELSE ""
    IN  [chunk |-> [marker |-> prefix, first |-> first, last |-> last],
         score |-> ScoreChunk(UNION {text[i].signals : i \in first..last}),
         keyword |-> window.keyword,
         position |-> window.start]

RangeKey(window) == <<window.start \div RangeUnit, window.end \div RangeUnit>>

\* the body of the two loops: a window is kept if its range key is new
RECURSIVE CollectChunks(_, _, _, _)
CollectChunks(text, windows, k, seen_ranges) ==
    IF k > Len(windows) THEN <<>>
    ELSE IF RangeKey(windows[k]) \in seen_ranges
         THEN CollectChunks(text, windows, k + 1, seen_ranges)
         ELSE <<ScoredChunk(text, windows[k])>>
              \o CollectChunks(text, windows, k + 1,
                               seen_ranges \cup {RangeKey(windows[k])})

\* scored_chunks.sort(key=lambda x: (-x['score'], x['position'])): stable
RECURSIVE InsertByScore(_, _)
InsertByScore(sorted, c) ==
    IF sorted = <<>> THEN <<c>>
    ELSE IF \/ Head(sorted).score > c.score
            \/ (Head(sorted).score = c.score /\ Head(sorted).position <= c.position)
         THEN <<Head(sorted)>> \o InsertByScore(Tail(sorted), c)
         ELSE <<c>> \o sorted

\* mutant: the chunks are left in the order they were collected
SortByScore_AsCollected(chunks) == chunks

RECURSIVE SortByScore(_)
SortByScore(chunks) ==
    IF chunks = <<>> THEN <<>>
    ELSE InsertByScore(SortByScore(SubSeq(chunks, 1, Len(chunks) - 1)),
                       chunks[Len(chunks)])

\* mutant: the ranges seen by the earlier calls are still there
SeenRangesAtEntry_Kept == ex_seen

\* seen_ranges = set(): every call starts with no range seen
SeenRangesAtEntry == {}

\* scored_chunks as the loops leave it
ScoredChunks(text, keywords, chunk_size) ==
    CollectChunks(text, WindowsFrom(text, SortedKeywords(keywords), 1, chunk_size),
                  1, SeenRangesAtEntry)

\* seen_ranges as the loops leave it
SeenRanges(text, keywords, chunk_size) ==
    LET windows == WindowsFrom(text, SortedKeywords(keywords), 1, chunk_size)
    IN  SeenRangesAtEntry \cup {RangeKey(windows[k]) : k \in 1..Len(windows)}

\* top_chunks: the 'chunk' of the first max_chunks entries after the sort
TopChunks(scored_chunks, max_chunks) ==
    LET sorted == SortByScore(scored_chunks)
    IN  [k \in 1..Min({max_chunks, Len(sorted)}) |-> sorted[k].chunk]

\* max_chunks: the default of the signature, or a smaller number
MaxChunksArgs == {1, 2, MaxChunks}

ChunkInit ==
    /\ ex_text \in SectionTexts
    /\ ex_keywords \in KeywordLists
    /\ ex_max_chunks \in MaxChunksArgs
    /\ ex_pc = "call"
    /\ ex_scored = <<>>
    /\ ex_top = <<>>
    /\ ex_seen = {}
    /\ ex_log = <<>>

InitChunk == ParserIdle /\ VerifyIdle /\ BlockIdle /\ ChunkInit /\ BatchIdle /\ ExtractIdle
    /\ NotesIdle
    /\ ScoreIdle
    /\ ClassifyIdle

\* self._extract_relevant_chunks(text, keywords, max_chunks=max_chunks)
ExtractRelevantChunks ==
    /\ ex_pc = "call"
    /\ ex_scored' = ScoredChunks(ex_text, ex_keywords, ChunkSize)
    /\ ex_top' = TopChunks(ex_scored', ex_max_chunks)
    /\ ex_seen' = SeenRanges(ex_text, ex_keywords, ChunkSize)
    /\ ex_log' = Append(ex_log, [text |-> ex_text, keywords |-> ex_keywords,
                                 max_chunks |-> ex_max_chunks, top |-> ex_top'])
    /\ ex_pc' = "returned"
    /\ UNCHANGED <<ex_text, ex_keywords, ex_max_chunks>>
    /\ UNCHANGED notChunk

NextChunk == ExtractRelevantChunks

SpecChunk == InitChunk /\ [][NextChunk]_vars

-----------------------------------------------------------------------------
(* Properties of _extract_relevant_chunks *)

\* the page the text of a chunk starts on: the page of the last marker up to
\* its first line
PageOfLine(text, first) ==
    LET markers == {i \in 1..first : text[i].page > 0}
    IN  IF markers = {} THEN 0 ELSE text[Max(markers)].page

\* the first line of a chunk as returned
ChunkFirstLine(text, chunk) ==
    IF chunk.marker # "" THEN chunk.marker ELSE text[chunk.first].name

\* the chunk holds the marker, prefixed or in its text
ChunkCarries(text, chunk, marker) ==
    chunk.marker = marker \/ ChunkContains(text, chunk.first, chunk.last, marker)

\* C10: every chunk returned carries the [PAGE n] marker of the page on which
\* its window starts, however far the window start lies from that marker, and
\* has it as its first line.
C10_PageTraceable ==
    ex_pc = "returned" =>
        \A k \in 1..Len(ex_top) :
            LET marker == PageMarker(PageOfLine(ex_text, ex_top[k].first))
            IN  /\ ChunkCarries(ex_text, ex_top[k], marker)
                /\ ChunkFirstLine(ex_text, ex_top[k]) = marker

\* the part of C10 that the code keeps: a chunk whose window starts within the
\* 200 characters after a marker, with no other marker in between them, has
\* that marker as its first line
C10_NearMarker ==
    ex_pc = "returned" =>
        \A k \in 1..Len(ex_scored) :
            LET c == ex_scored[k]
                near == {i \in 1..Len(ex_text) :
                            /\ ex_text[i].page > 0
                            /\ LineStarts(ex_text)[i] >= c.position - MarkerLookback
                            /\ LineStarts(ex_text)[i] + ex_text[i].len <= c.position}
            IN  Cardinality(near) = 1 =>
                    ChunkFirstLine(ex_text, c.chunk)
                        = PageMarker(PageOfLine(ex_text, c.chunk.first))


\* every window the call produces: the keyword, its place in the list, the
\* start of the match, and the window
ProducedWindows ==
    {[keyword |-> ex_keywords[k], index |-> k, at |-> m[1],
      start |-> WindowStart(ex_text, m[1], ChunkSize),
      end |-> WindowEnd(ex_text, m[2], ChunkSize)] :
        <<k, m>> \in UNION {{<<k, MatchesOf(ex_text, ex_keywords[k])[n]>> :
                                n \in 1..Len(MatchesOf(ex_text, ex_keywords[k]))} :
                             k \in {j \in 1..Len(ex_keywords) :
                                       Len(ex_keywords[j]) >= MinKeywordLen}}}

\* the processing order: longer keywords first, keywords of one length in the
\* order of the list, the occurrences of a keyword in text order
ProducedBefore(v, w) ==
    \/ Len(v.keyword) > Len(w.keyword)
    \/ Len(v.keyword) = Len(w.keyword) /\ v.index < w.index
    \/ v.index = w.index /\ v.at < w.at

\* the first window produced on its coarse range key
FirstOnKey(w) ==
    \A v \in ProducedWindows : RangeKey(v) = RangeKey(w) => ~ProducedBefore(v, w)

\* C23: for each coarse range key (window start div 1000, window end div 1000)
\* only the first window in processing order (keywords by length descending,
\* occurrences in text order) is kept: the kept chunks are those windows, in
\* that order, no two on one key, and where a longer and a shorter keyword
\* give windows on one key the chunk kept is the longer keyword's.
C23_FirstWindowKept ==
    ex_pc = "returned" =>
        LET first == {w \in ProducedWindows : FirstOnKey(w)}
            place(w) == 1 + Cardinality({v \in first : ProducedBefore(v, w)})
        IN  /\ Len(ex_scored) = Cardinality(first)
            /\ Cardinality({RangeKey(w) : w \in ProducedWindows}) = Len(ex_scored)
            /\ \A w \in first :
                   /\ ex_scored[place(w)].keyword = w.keyword
                   /\ ex_scored[place(w)].position = w.start
            /\ \A w \in first : \A v \in ProducedWindows :
                   RangeKey(v) = RangeKey(w) => Len(v.keyword) <= Len(w.keyword)

\* a window of a shorter keyword that stands earlier in the list was discarded
\* for the window of a longer keyword on the same key
C23_Witness ==
    /\ ex_pc = "returned"
    /\ \E w, v \in ProducedWindows :
           /\ FirstOnKey(w) /\ ~FirstOnKey(v)
           /\ RangeKey(v) = RangeKey(w)
           /\ Len(v.keyword) < Len(w.keyword)
           /\ v.index < w.index
           /\ \E i \in 1..Len(ex_scored) :
                  ex_scored[i].keyword = w.keyword /\ ex_scored[i].position = w.start

\* the chunk records in the order of (-score, position); chunks equal in both
\* keep the order in which they were collected
Precedes(scored, j, i) ==
    \/ scored[j].score > scored[i].score
    \/ scored[j].score = scored[i].score /\ scored[j].position < scored[i].position
    \/ /\ scored[j].score = scored[i].score
       /\ scored[j].position = scored[i].position
       /\ j < i

RankOf(scored, i) == 1 + Cardinality({j \in 1..Len(scored) : Precedes(scored, j, i)})

\* C11: the extractor returns at most max_chunks chunks, and they are the first
\* max_chunks of all kept chunks in the order of score descending, ties by
\* position ascending: no omitted chunk has a higher score than a returned one,
\* nor an equal score with an earlier position.
C11_TopByScore ==
    ex_pc = "returned" =>
        /\ Len(ex_top) <= ex_max_chunks
        /\ Len(ex_top) = Min({ex_max_chunks, Len(ex_scored)})
        /\ \A i \in 1..Len(ex_scored) :
              LET k == RankOf(ex_scored, i)
              IN  IF k <= Len(ex_top)
                  THEN ex_top[k] = ex_scored[i].chunk
                  ELSE \A j \in 1..Len(ex_scored) :
                          RankOf(ex_scored, j) <= Len(ex_top) =>
                              /\ ex_scored[i].score <= ex_scored[j].score
                              /\ ex_scored[i].score = ex_scored[j].score =>
                                     ex_scored[i].position >= ex_scored[j].position

\* a call that kept more chunks than max_chunks and returned a chunk that was
\* collected after an omitted one of the same score, ahead of it by position
C11_Witness ==
    /\ ex_pc = "returned"
    /\ Len(ex_scored) > ex_max_chunks
    /\ Len(ex_top) = ex_max_chunks
    /\ \E i, j \in 1..Len(ex_scored) :
          /\ i < j
          /\ RankOf(ex_scored, i) > Len(ex_top)
          /\ RankOf(ex_scored, j) <= Len(ex_top)
          /\ ex_scored[i].score = ex_scored[j].score
          /\ ex_scored[i].position > ex_scored[j].position
          /\ ex_top[RankOf(ex_scored, j)] = ex_scored[j].chunk
          /\ ex_top[RankOf(ex_scored, j)] # ex_scored[i].chunk

-----------------------------------------------------------------------------
(* Several calls of _extract_relevant_chunks on one extractor object: after  *)
(* a call has returned the next one is made, with the arguments of a call    *)
(* made before or with other ones                                            *)

\* the number of calls on the object
MaxCalls == 3

\* the number of items of the texts of these calls
MaxRecallItems == 5

\* the items of the texts of these calls
RecallItems == {"page", "fill300", "fill1600", "goodwill", "lease"}

\* text, keywords and max_chunks of a call
CallArgs(text, keywords, max_chunks) ==
    [text |-> text, keywords |-> keywords, max_chunks |-> max_chunks]

RecallArgs ==
    {CallArgs(BuildFrom(items, 1, FirstPage), keywords, max_chunks) :
        items \in {it \in UNION {[1..n -> RecallItems] : n \in 1..MaxRecallItems} :
                      it[1] = "page"},
        keywords \in KeywordLists, max_chunks \in MaxChunksArgs}

\* the arguments of a call on another section
OtherArgs ==
    CallArgs(BuildFrom(<<"page", "goodwill", "fill1600", "lease">>, 1, FirstPage),
             <<"lease", "goodwill">>, MaxChunks)

RecallInit ==
    /\ \E args \in RecallArgs :
          /\ ex_text = args.text
          /\ ex_keywords = args.keywords
          /\ ex_max_chunks = args.max_chunks
    /\ ex_pc = "call"
    /\ ex_scored = <<>>
    /\ ex_top = <<>>
    /\ ex_seen = {}
    /\ ex_log = <<>>

InitRecall == ParserIdle /\ VerifyIdle /\ BlockIdle /\ RecallInit /\ BatchIdle /\ ExtractIdle
    /\ NotesIdle
    /\ ScoreIdle
    /\ ClassifyIdle

\* the caller makes the next call on the same object
CallAgain ==
    /\ ex_pc = "returned"
    /\ Len(ex_log) < MaxCalls
    /\ \E args \in {CallArgs(ex_log[k].text, ex_log[k].keywords, ex_log[k].max_chunks) :
                        k \in 1..Len(ex_log)} \cup {OtherArgs} :
          /\ ex_text' = args.text
          /\ ex_keywords' = args.keywords
          /\ ex_max_chunks' = args.max_chunks
    /\ ex_pc' = "call"
    /\ UNCHANGED <<ex_scored, ex_top, ex_seen, ex_log>>
    /\ UNCHANGED notChunk

NextRecall == ExtractRelevantChunks \/ CallAgain

SpecRecall == InitRecall /\ [][NextRecall]_vars

\* two logged calls were made with the same arguments
SameArgs(a, b) ==
    a.text = b.text /\ a.keywords = b.keywords /\ a.max_chunks = b.max_chunks

-----------------------------------------------------------------------------
(* run.py: extract_batch and extract_single.  A file of the directory is     *)
(* given by its condition: what happens when extract_single handles it       *)

\* the number of files in the directory
MaxFiles == 4

\* "missing": listed by glob, but pdf_path.exists() is false (a dangling link,
\*            or a file removed since); "unreadable": parse_document raises;
\* "no_extractor": VerbatimExtractor() raises (no API key, bad config file);
\* "parses": the file parses and the extractor is constructed
FileConditions == {"missing", "unreadable", "no_extractor", "parses"}

BatchDirs == UNION {[1..n -> FileConditions] : n \in 0..MaxFiles}

\* the positional arguments of extractor.extract(doc, pdf_path.stem) and the
\* positional parameters, after self, of VerbatimExtractor.extract(self, doc)
ExtractCallArgs == 2
ExtractParams == 1

\* how a call of a Python function ends when it is given so many positional
\* arguments: a TypeError unless the number is the one of its parameters
CallOutcome(args, params) == IF args = params THEN "returns" ELSE "raises"

\* extract_single(pdf_path, output_dir, config_path): how the call ends.
\* sys.exit(1) raises SystemExit, which is not an Exception
ExtractSingle(condition) ==
    IF condition = "missing" THEN "SystemExit"
    ELSE IF condition = "unreadable" THEN "Exception"
    ELSE IF condition = "no_extractor" THEN "Exception"
    ELSE IF CallOutcome(ExtractCallArgs, ExtractParams) = "raises" THEN "Exception"
    ELSE "returns"

BatchInit ==
    /\ bt_files \in BatchDirs
    /\ bt_pc = "start"
    /\ bt_idx = 1
    /\ bt_outcomes = <<>>

InitBatch == ParserIdle /\ VerifyIdle /\ BlockIdle /\ ChunkIdle /\ BatchInit /\ ExtractIdle
    /\ NotesIdle
    /\ ScoreIdle
    /\ ClassifyIdle

\* extract_batch up to its loop: with no PDF file it exits
StartBatch ==
    /\ bt_pc = "start"
    /\ bt_pc' = IF bt_files = <<>> THEN "exited" ELSE "loop"
    /\ UNCHANGED <<bt_files, bt_idx, bt_outcomes>>
    /\ UNCHANGED notBatch

\* one turn of the loop: try extract_single, except Exception: print, continue
ProcessFile ==
    /\ bt_pc = "loop"
    /\ bt_idx <= Len(bt_files)
    /\ LET outcome == ExtractSingle(bt_files[bt_idx])
       IN  /\ bt_outcomes' = Append(bt_outcomes,
                                    CASE outcome = "returns" -> "complete"
                                      [] outcome = "Exception" -> "error"
                                      [] outcome = "SystemExit" -> "not_found")
           /\ bt_pc' = IF outcome = "SystemExit" THEN "exited" ELSE "loop"
    /\ bt_idx' = bt_idx + 1
    /\ UNCHANGED bt_files
    /\ UNCHANGED notBatch

\* the loop has handled the last file
BatchReturns ==
    /\ bt_pc = "loop"
    /\ bt_idx > Len(bt_files)
    /\ bt_pc' = "returned"
    /\ UNCHANGED <<bt_files, bt_idx, bt_outcomes>>
    /\ UNCHANGED notBatch

NextBatch == StartBatch \/ ProcessFile \/ BatchReturns

SpecBatch == InitBatch /\ [][NextBatch]_vars

\* C13: in a batch every file found is tried and gets an outcome, whatever
\* happened to the files before it: a failure while handling one file never
\* ends the loop before the last file.
C13_BatchIsolation ==
    (bt_files # <<>> /\ bt_pc \in {"returned", "exited"}) =>
        /\ bt_pc = "returned"
        /\ Len(bt_outcomes) = Len(bt_files)

\* the part of C13 that the code keeps: a file whose handling raises an
\* Exception does not end the loop
C13_ExceptionsIsolated ==
    (bt_pc \in {"returned", "exited"} /\ \A k \in 1..Len(bt_files) : bt_files[k] # "missing")
        => (bt_files # <<>> => bt_pc = "returned" /\ Len(bt_outcomes) = Len(bt_files))

\* C30: extract_single on an existing PDF that parses, with a constructible
\* extractor and a working generative process, runs parse and extraction to
\* completion without raising and returns the result; in a batch such a
\* document is reported as complete, not as an error.
C30_ParsedFileCompletes ==
    \A k \in 1..Len(bt_outcomes) :
        bt_files[k] = "parses" => bt_outcomes[k] = "complete"

-----------------------------------------------------------------------------
(* VerbatimExtractor.extract: the loop over the blocks of the configuration, *)
(* one call of _extract_block per block.  The answer of the generative       *)
(* process is here also JSON of another shape than the one asked for         *)

\* self.blocks: a configuration of two blocks, in the order of the dict
BLOCKS ==
    <<[name |-> "Debt", categories |-> BlockCategories],
      [name |-> "Intangibles", categories |-> <<"goodwill">>]>>

\* the evidence of an entry of these answers: none, or a quote copied from the
\* source followed by one made up
DocEvidence ==
    {<<>>, <<[text |-> SubSeq(BlockSource, 1, 26)], [text |-> FabUnrelated]>>}

DocEntries == [category : ResponseCategories, evidence : DocEvidence]

DocExtractions == UNION {[1..n -> DocEntries] : n \in 0..MaxEntries}

\* JSON that parses but has not the shape asked for:
\*   "extractions_null"          {"extractions": null}
\*   "audit_null"                {"extractions": [...], "audit": null}
\*   "entry_not_object"          an element of extractions is a string
\*   "evidence_null"             {"category": c, "evidence": null}
\*   "evidence_item_not_object"  an element of evidence is a string
\*   "text_not_string"           {"text": 2023}
\* the last four at the entry `at` of extractions
EntryFaults ==
    {"entry_not_object", "evidence_null", "evidence_item_not_object", "text_not_string"}

DocResponses ==
    {[kind |-> k, extractions |-> <<>>, fault |-> "none", at |-> 0] :
        k \in {"api_error", "no_json", "bad_json"}}
    \cup {[kind |-> "json", extractions |-> es, fault |-> f, at |-> 0] :
             es \in DocExtractions, f \in {"none", "audit_null"}}
    \cup {[kind |-> "json", extractions |-> <<>>, fault |-> "extractions_null", at |-> 0]}
    \cup {[kind |-> "json", extractions |-> p[1], fault |-> p[2], at |-> p[3]] :
             p \in {q \in DocExtractions \X EntryFaults \X (1..MaxEntries) :
                       q[3] <= Len(q[1])}}

\* the entry is the one extraction_map keeps for a configured category
IsSelected(extractions, at, categories) ==
    /\ \E c \in 1..Len(categories) : categories[c] = extractions[at].category
    /\ \A j \in 1..Len(extractions) :
          extractions[j].category = extractions[at].category => j <= at

\* the code after the try block raises: iterating None, .get on a string,
\* len() of a number
BlockRaises(response, categories) ==
    /\ response.kind = "json"
    /\ \/ response.fault = "extractions_null"
       \/ response.fault = "entry_not_object"
       \/ /\ response.fault \in {"evidence_null", "evidence_item_not_object",
                                 "text_not_string"}
          /\ IsSelected(response.extractions, response.at, categories)

\* 'extractions' of the dict _extract_block returns, with the block name
BlockExtractions(block, response, full_text) ==
    LET out == VerbatimExtractBlock(response, block.categories, full_text)
    IN  [c \in 1..Len(out) |->
            [block |-> block.name, category |-> out[c].category,
             evidence |-> out[c].evidence]]

\* the CategoryExtraction objects of a block with no text
EmptyExtractions(block) ==
    [c \in 1..Len(block.categories) |->
        [block |-> block.name, category |-> block.categories[c], evidence |-> <<>>]]

ExtractInit ==
    /\ xt_blank \in [1..Len(BLOCKS) -> BOOLEAN]
    /\ xt_pc = "loop"
    /\ xt_block = 1
    /\ xt_all = <<>>
    /\ xt_log = <<>>
    /\ xt_result = [total_evidence |-> 0, verified_count |-> 0]

InitExtract ==
    ParserIdle /\ VerifyIdle /\ BlockIdle /\ ChunkIdle /\ BatchIdle /\ ExtractInit
    /\ ClassifyIdle /\ ScoreIdle /\ NotesIdle

\* the category names of the entries of the answer, in the order written
Answered(response) ==
    [i \in 1..Len(response.extractions) |-> response.extractions[i].category]

\* a turn of the loop for a block with no text: empty extractions, continue
BlockWithoutText ==
    /\ xt_pc = "loop"
    /\ xt_block <= Len(BLOCKS)
    /\ xt_blank[xt_block]
    /\ xt_all' = xt_all \o EmptyExtractions(BLOCKS[xt_block])
    /\ xt_log' = Append(xt_log, [kind |-> "no_text", fault |-> "none",
                                  answered |-> <<>>])
    /\ xt_block' = xt_block + 1
    /\ UNCHANGED <<xt_blank, xt_pc, xt_result>>
    /\ UNCHANGED notExtract

\* a turn of the loop with a call of _extract_block; what the call raises, and
\* what all_audit.extend raises on "audit": null, leaves extract
BlockWithText ==
    /\ xt_pc = "loop"
    /\ xt_block <= Len(BLOCKS)
    /\ ~xt_blank[xt_block]
    /\ \E response \in DocResponses :
          LET block == BLOCKS[xt_block]
          IN  /\ xt_log' = Append(xt_log, [kind |-> response.kind,
                                           fault |-> response.fault,
                                           answered |-> Answered(response)])
              /\ IF BlockRaises(response, block.categories)
                 THEN xt_pc' = "raised" /\ xt_all' = xt_all
                 ELSE /\ xt_all' = xt_all \o BlockExtractions(block, response, BlockSource)
                      /\ xt_pc' = IF response.fault = "audit_null" THEN "raised"
                                  ELSE "loop"
    /\ xt_block' = xt_block + 1
    /\ UNCHANGED <<xt_blank, xt_result>>
    /\ UNCHANGED notExtract

\* sum(1 for ev in e.evidence if ev.verified)
VerifiedIn(extraction) ==
    Cardinality({k \in 1..Len(extraction.evidence) : extraction.evidence[k].verified})

\* total_evidence = sum(len(e.evidence) for e in all_extractions)
TotalEvidence(extractions) ==
    LET sum[k \in 0..Len(extractions)] ==
            IF k = 0 THEN 0 ELSE sum[k - 1] + Len(extractions[k].evidence)
    IN  sum[Len(extractions)]

\* verified_count
VerifiedCount(extractions) ==
    LET sum[k \in 0..Len(extractions)] ==
            IF k = 0 THEN 0 ELSE sum[k - 1] + VerifiedIn(extractions[k])
    IN  sum[Len(extractions)]

\* the loop is over: the totals are computed and the result is returned
ExtractReturns ==
    /\ xt_pc = "loop"
    /\ xt_block > Len(BLOCKS)
    /\ xt_result' = [total_evidence |-> TotalEvidence(xt_all),
                     verified_count |-> VerifiedCount(xt_all)]
    /\ xt_pc' = "returned"
    /\ UNCHANGED <<xt_blank, xt_block, xt_all, xt_log>>
    /\ UNCHANGED notExtract

NextExtract == BlockWithoutText \/ BlockWithText \/ ExtractReturns

SpecExtract == InitExtract /\ [][NextExtract]_vars

\* the CategoryExtraction objects that block b of the configuration put in
\* all_extractions, when every block before it returned
ExtractionsOfBlock(b) ==
    {k \in 1..Len(xt_all) : xt_all[k].block = BLOCKS[b].name}

\* C14: a failure of the generative process for one block (an exception, no
\* JSON, unparsable JSON, or JSON of the wrong shape) is recovered in the
\* block: no exception leaves extract, the block yields an empty list for each
\* of its categories, and the blocks after it are still handled.
C14_BlockFailureRecovered ==
    /\ xt_pc # "raised"
    /\ xt_pc = "returned" =>
          /\ Len(xt_log) = Len(BLOCKS)
          /\ \A b \in 1..Len(xt_log) :
                (xt_log[b].kind # "json" \/ xt_log[b].fault # "none") =>
                    /\ Cardinality(ExtractionsOfBlock(b)) = Len(BLOCKS[b].categories)
                    /\ \A k \in ExtractionsOfBlock(b) : xt_all[k].evidence = <<>>

\* the part of C14 that the code keeps: after an exception of the call, an
\* answer with no JSON or with JSON that does not parse, the block has an
\* empty list for each category and the loop goes on
C14_CaughtFailures ==
    \A b \in 1..Len(xt_log) :
        xt_log[b].kind \in {"api_error", "no_json", "bad_json"} =>
            /\ b < Len(xt_log) \/ xt_pc # "raised"
            /\ Cardinality(ExtractionsOfBlock(b)) = Len(BLOCKS[b].categories)
            /\ \A k \in ExtractionsOfBlock(b) : xt_all[k].evidence = <<>>

-----------------------------------------------------------------------------
(* DocumentParser._classify_page as a function of its two arguments *)

\* page texts with none, one or several triggers
ClassifyTexts ==
    AllPageTexts \cup
    { <<>>,
      <<"annual", " ", "report", "\n", "results", " ", "of", " ", "operations">>,
      <<"basis", " ", "of", " ", "presentation", "\n",
        "notes", " ", "to", " ", "financial", " ", "statements">>,
      <<"consolidated", " ", "balance", " ", "sheets", "\n",
        "basis", " ", "of", " ", "presentation">>,
      <<"Form", " ", "10", "-", "K", "\n",
        "consolidated", " ", "statements", " ", "of", " ", "cash", " ", "flows">>,
      <<"see", " ", "footnote", " ", "3", ".">>,
      <<"annual", " ", "report", "\n", "see", " ", "Note", " ", "2", ".">>,
      <<"Form", " ", "10", "-", "K", "\n", "Note", " ", "2", ":", " ", "debt">>,
      <<"annual", " ", "report", "\n", "footnotes", " ", "to", " ", "the", " ", "tables">> }

ClassifyInit ==
    /\ cl_text \in ClassifyTexts
    /\ cl_sticky \in BOOLEAN
    /\ cl_pc = "call"
    /\ cl_label = "none"

InitClassify ==
    /\ ParserIdle /\ VerifyIdle /\ BlockIdle /\ ChunkIdle /\ BatchIdle /\ ExtractIdle
    /\ ClassifyInit /\ ScoreIdle /\ NotesIdle

\* detected_type = self._classify_page(text_lower, in_notes_section)
ClassifyCall ==
    /\ cl_pc = "call"
    /\ cl_label' = ClassifyPage(Lower(cl_text), cl_sticky)
    /\ cl_pc' = "returned"
    /\ UNCHANGED <<cl_text, cl_sticky>>
    /\ UNCHANGED notClassify

\* the loop goes on to the next page, with the state the caller carries
ClassifyNextPage ==
    /\ cl_pc = "returned"
    /\ cl_text' \in ClassifyTexts
    /\ cl_sticky' \in BOOLEAN
    /\ cl_pc' = "call"
    /\ UNCHANGED cl_label
    /\ UNCHANGED notClassify

NextClassify == ClassifyCall \/ ClassifyNextPage

SpecClassify == InitClassify /\ [][NextClassify]_vars

\* the labels in the order in which their trigger phrases are tried
TriggerOrder == <<"notes", "accounting_policies", "md&a", "financial_statements", "cover">>

\* a trigger phrase of the label occurs in the text
HasTrigger(label, text_lower) ==
    \E k \in 1..Len(SECTION_PATTERNS) :
        /\ SECTION_PATTERNS[k].section_type = label
        /\ AnyPatternMatches(k, text_lower)

\* the rules of the decision, first to last; the last one always applies
DecisionRules(text_lower, sticky_in_notes) ==
    << [label |-> "notes", applies |-> sticky_in_notes /\ Search(NoteDotPat, text_lower)],
       [label |-> "notes", applies |-> SearchLineStart(NoteLinePat, text_lower)] >>
    \o [k \in 1..Len(TriggerOrder) |->
           [label |-> TriggerOrder[k], applies |-> HasTrigger(TriggerOrder[k], text_lower)]]
    \o << [label |-> "other", applies |-> TRUE] >>

FirstApplying(rules) == Min({k \in 1..Len(rules) : rules[k].applies})

\* C21: _classify_page returns the label of the first rule that applies, in
\* the order: notes when the state is sticky and the text has "note <number>."
\* anywhere; notes when a line starts with "note <number>"; the first of
\* notes, accounting_policies, md&a, financial_statements, cover with a
\* matching trigger phrase; other when nothing matches.  Every text gets a
\* label.
C21_FirstMatchWins ==
    cl_pc = "returned" =>
        LET rules == DecisionRules(Lower(cl_text), cl_sticky)
        IN  /\ cl_label = rules[FirstApplying(rules)].label
            /\ cl_label \in SectionTypes

\* a text with the triggers of two labels got the earlier one, although the
\* later label's phrase comes first in the text
C21_Witness ==
    /\ cl_pc = "returned"
    /\ ~cl_sticky
    /\ HasTrigger("cover", Lower(cl_text))
    /\ HasTrigger("md&a", Lower(cl_text))
    /\ ~HasTrigger("notes", Lower(cl_text))
    /\ ~HasTrigger("accounting_policies", Lower(cl_text))
    /\ cl_text[1] = "annual"
    /\ cl_label = "md&a"

-----------------------------------------------------------------------------
(* VerbatimExtractor._score_chunk on chunks made of a few phrases.  A chunk *)
(* is the set of its phrases, each on a line of its own.                    *)

\* the phrases, each with the signals the tests of _score_chunk find in it
PhraseSignals(phrase) ==
    CASE phrase = "$31 million" -> {"dollar"}
      [] phrase = "March 15, 2023" -> {"full_date"}
      [] phrase = "June 2022" -> {"month_year"}
      [] phrase = "December 31, 2023" -> {"full_date", "december_31"}
      [] phrase = "fiscal year ended" -> {"fiscal_year"}
      [] phrase = "fair value" -> {"fair value"}
      [] phrase = "impairment" -> {"impairment"}
      [] phrase = "12 45 78" -> {"table"}
      [] phrase = "forward-looking" -> {"forward-looking"}
      [] phrase = "no assurance" -> {"no assurance"}
      [] phrase = "Table of Contents" -> {"table of contents"}
      [] OTHER -> {}

Phrases ==
    {"$31 million", "March 15, 2023", "June 2022", "December 31, 2023",
     "fiscal year ended", "fair value", "impairment", "12 45 78", "forward-looking",
     "no assurance", "Table of Contents", "the company"}

ChunkSignals(chunk) == UNION {PhraseSignals(phrase) : phrase \in chunk}

ScoreInit ==
    /\ sc_chunk \in {c \in SUBSET Phrases : Cardinality(c) <= MaxPhrases}
    /\ sc_pc = "call"
    /\ sc_score = 0

InitScore ==
    /\ ParserIdle /\ VerifyIdle /\ BlockIdle /\ ChunkIdle /\ BatchIdle /\ ExtractIdle
    /\ ClassifyIdle /\ ScoreInit /\ NotesIdle

\* score = self._score_chunk(chunk)
ScoreCall ==
    /\ sc_pc = "call"
    /\ sc_score' = ScoreChunk(ChunkSignals(sc_chunk))
    /\ sc_pc' = "returned"
    /\ UNCHANGED sc_chunk
    /\ UNCHANGED notScore

NextScore == ScoreCall

SpecScore == InitScore /\ [][NextScore]_vars

\* the signal table: the weight of every signal
SignalWeight(signal) ==
    CASE signal = "dollar" -> 30
      [] signal = "full_date" -> 20
      [] signal = "month_year" -> 15
      [] signal = "fiscal_year" -> 10
      [] signal = "december_31" -> 10
      [] signal \in PolicyTerms -> 5
      [] signal = "table" -> 15
      [] signal \in GenericTerms -> 0 - 10
      [] signal = "table of contents" -> 0 - 20
      [] OTHER -> 0

\* the sum of the weights of the signals of a set
RECURSIVE SumOfWeights(_)
SumOfWeights(signals) ==
    IF signals = {} THEN 0
    ELSE LET signal == CHOOSE x \in signals : TRUE
         IN  SignalWeight(signal) + SumOfWeights(signals \ {signal})

\* C22: the score of a chunk is the sum of the weights of every signal present
\* in it, each signal counted independently of the others: a chunk with a
\* full Month DD, YYYY date and a separate Month YYYY date gets +20 and +15.
C22_Additive ==
    sc_pc = "returned" => sc_score = SumOfWeights(ChunkSignals(sc_chunk))

\* the score is the sum of the weights unless the chunk holds both kinds of
\* date, and then the Month YYYY date adds nothing
C22_AdditiveButDates ==
    sc_pc = "returned" =>
        LET signals == ChunkSignals(sc_chunk)
        IN  sc_score = SumOfWeights(signals)
                         - (IF {"full_date", "month_year"} \subseteq signals
                            THEN SignalWeight("month_year") ELSE 0)

-----------------------------------------------------------------------------
(* _detect_individual_notes of stage1_parser.py: the two NOTE_PATTERNS are  *)
(* searched in the text of every notes Section (re.MULTILINE and            *)
(* re.IGNORECASE) and the matches are attached to the Section, sorted by    *)
(* position.  Here a text is a sequence of characters.                      *)

\* the most Sections of one call in a behaviour
MaxNoteSecs == 2

\* Note 1. Income taxes\nThe group\n2. Deferred Tax\n
NoteTextBoth ==
    <<"N", "o", "t", "e", " ", "1", ".", " ", "I", "n", "c", "o", "m", "e",
      " ", "t", "a", "x", "e", "s", "\n", "T", "h", "e", " ", "g", "r", "o",
      "u", "p", "\n", "2", ".", " ", "D", "e", "f", "e", "r", "r", "e", "d",
      " ", "T", "a", "x", "\n">>

\* NOTE 12: Leases\n3. Tax, Duties & Levies
NoteTextUpper ==
    <<"N", "O", "T", "E", " ", "1", "2", ":", " ", "L", "e", "a", "s", "e",
      "s", "\n", "3", ".", " ", "T", "a", "x", ",", " ", "D", "u", "t", "i",
      "e", "s", " ", "&", " ", "L", "e", "v", "i", "e", "s">>

\* see note 4 - x\nnote\n5\n- Pensions
NoteTextSplit ==
    <<"s", "e", "e", " ", "n", "o", "t", "e", " ", "4", " ", "-", " ", "x",
      "\n", "n", "o", "t", "e", "\n", "5", "\n", "-", " ", "P", "e", "n", "s",
      "i", "o", "n", "s">>

\* 1. Revenue (net)\n2. A\nrest of it
NoteTextParen ==
    <<"1", ".", " ", "R", "e", "v", "e", "n", "u", "e", " ", "(", "n", "e",
      "t", ")", "\n", "2", ".", " ", "A", "\n", "r", "e", "s", "t", " ", "o",
      "f", " ", "i", "t">>

\* the empty text
NoteTextEmpty ==
    <<>>

\* Note 7. 
NoteTextBare ==
    <<"N", "o", "t", "e", " ", "7", ".", " ">>

\* Total 2023. Deferred tax\nNote 3 Tax
NoteTextMidLine ==
    <<"T", "o", "t", "a", "l", " ", "2", "0", "2", "3", ".", " ", "D", "e",
      "f", "e", "r", "r", "e", "d", " ", "t", "a", "x", "\n", "N", "o", "t",
      "e", " ", "3", " ", "T", "a", "x">>

\* 10. Tax\n11. Tax
NoteTextTwice ==
    <<"1", "0", ".", " ", "T", "a", "x", "\n", "1", "1", ".", " ", "T", "a",
      "x">>

\* The group has no notes.\nNote: none
NoteTextNone ==
    <<"T", "h", "e", " ", "g", "r", "o", "u", "p", " ", "h", "a", "s", " ",
      "n", "o", " ", "n", "o", "t", "e", "s", ".", "\n", "N", "o", "t", "e",
      ":", " ", "n", "o", "n", "e">>

NoteTexts ==
    {NoteTextBoth, NoteTextUpper, NoteTextSplit, NoteTextParen,
     NoteTextEmpty, NoteTextBare, NoteTextMidLine, NoteTextTwice,
     NoteTextNone}

\* \d
DigitChars == {"0", "1", "2", "3", "4", "5", "6", "7", "8", "9"}

\* [A-Z] under re.IGNORECASE
LetterChars == DOMAIN UpperToLower \cup {UpperToLower[c] : c \in DOMAIN UpperToLower}

\* [\.\:\s\-]
SepChars == {".", ":", "-"} \cup WS

\* [A-Za-z\s,&]
TitleChars == LetterChars \cup WS \cup {",", "&"}

\* the last index of the longest run of characters of S that starts at index p
\* (p - 1 when the character at p is not in S): a greedy S+ or S*
RunEnd(t, p, S) ==
    LET stops == {j \in p..Len(t) : t[j] \notin S}
    IN  IF stops = {} THEN Len(t) ELSE Min(stops) - 1

\* (?:\n|$) matches right after index e: a newline follows, or the text ends
AtLineEnd(t, e) == e = Len(t) \/ t[e + 1] = "\n"

\* the last index the match takes when its title ends at e: (?:\n|$) takes
\* the newline when there is one
LastTaken(t, e) == IF e < Len(t) THEN e + 1 ELSE e

NoMatch == [found |-> FALSE, last |-> 0, position |-> 0, number |-> <<>>, title |-> <<>>]

\* NOTE_PATTERNS[0] tried at index p: ^note\s+(\d+)[\.\:\s\-]+(.+?)(?:\n|$)
MatchNoteWord(t, p) ==
    IF ~(/\ (p = 1 \/ t[p - 1] = "\n")
         /\ p + 3 <= Len(t)
         /\ LowerStr(SubSeq(t, p, p + 3)) = <<"n", "o", "t", "e">>)
    THEN NoMatch
    ELSE LET ws_end  == RunEnd(t, p + 4, WS)
             d_end   == RunEnd(t, ws_end + 1, DigitChars)
             sep_end == RunEnd(t, d_end + 1, SepChars)
             \* the separators give characters back until a title can start
             starts  == {q \in (d_end + 2)..(sep_end + 1) : q <= Len(t) /\ t[q] # "\n"}
             q       == Max(starts)
             e       == Min({j \in q..Len(t) : AtLineEnd(t, j)})
         IN  IF ws_end < p + 4 \/ d_end < ws_end + 1 \/ sep_end < d_end + 1 \/ starts = {}
             THEN NoMatch
             ELSE [found |-> TRUE, last |-> LastTaken(t, e), position |-> p - 1,
                   number |-> SubSeq(t, ws_end + 1, d_end),
                   title |-> Strip(SubSeq(t, q, e))]

\* NOTE_PATTERNS[1] tried at index p: (\d+)\.\s+([A-Z][A-Za-z\s,&]+?)(?:\n|$)
MatchNumbered(t, p) ==
    IF t[p] \notin DigitChars
    THEN NoMatch
    ELSE LET d_end   == RunEnd(t, p, DigitChars)
             ws_end  == RunEnd(t, d_end + 2, WS)
             first   == ws_end + 1
             cls_end == RunEnd(t, first + 1, TitleChars)
             \* the lazy title stops at the first line end it reaches
             ends    == {j \in (first + 1)..cls_end : AtLineEnd(t, j)}
             e       == Min(ends)
         IN  IF \/ d_end >= Len(t) \/ t[d_end + 1] # "."
                \/ ws_end < d_end + 2
                \/ first > Len(t) \/ t[first] \notin LetterChars
                \/ ends = {}
             THEN NoMatch
             ELSE [found |-> TRUE, last |-> LastTaken(t, e), position |-> p - 1,
                   number |-> SubSeq(t, p, d_end),
                   title |-> Strip(SubSeq(t, first, e))]

\* the pattern families, in the order of NOTE_PATTERNS
Families == <<"note_word", "numbered">>

MatchAt(t, family, p) ==
    IF family = "note_word" THEN MatchNoteWord(t, p) ELSE MatchNumbered(t, p)

\* re.finditer(pattern, text, ...): the matches from index p on, left to right,
\* the search resuming after each match
RECURSIVE FindIter(_, _, _)
FindIter(t, family, p) ==
    IF p > Len(t) THEN <<>>
    ELSE LET mt == MatchAt(t, family, p)
         IN  IF mt.found
             THEN <<[position |-> mt.position, number |-> mt.number, title |-> mt.title]>>
                      \o FindIter(t, family, mt.last + 1)
             ELSE FindIter(t, family, p + 1)

\* one step of the stable sort: rec goes after every record whose position is
\* not greater
RECURSIVE InsertByPosition(_, _)
InsertByPosition(sorted, rec) ==
    IF sorted = <<>> THEN <<rec>>
    ELSE IF Head(sorted).position <= rec.position
         THEN <<Head(sorted)>> \o InsertByPosition(Tail(sorted), rec)
         ELSE <<rec>> \o sorted

\* the matches left in the order the patterns found them
SortByPosition_AsFound(recs) == recs

\* note_matches.sort(key=lambda x: x['position'])
RECURSIVE SortByPosition(_)
SortByPosition(recs) ==
    IF recs = <<>> THEN <<>>
    ELSE InsertByPosition(SortByPosition(SubSeq(recs, 1, Len(recs) - 1)), recs[Len(recs)])

\* the loop over NOTE_PATTERNS appending to note_matches
NoteMatches(t) == FindIter(t, Families[1], 1) \o FindIter(t, Families[2], 1)

\* the body of the loop over notes_sections
NoteBoundaries(t) == SortByPosition(NoteMatches(t))

SectionTypesOfNotes == {"notes", "financial_statements"}

NotesInit ==
    /\ nb_pc = "call"
    /\ \E n \in 1..MaxNoteSecs :
           nb_sections \in [1..n -> [section_type : SectionTypesOfNotes,
                                     text : NoteTexts,
                                     has_boundaries : {FALSE},
                                     note_boundaries : {<<>>}]]

InitNotes ==
    /\ ParserIdle /\ VerifyIdle /\ BlockIdle /\ ChunkIdle /\ BatchIdle /\ ExtractIdle
    /\ ClassifyIdle /\ ScoreIdle /\ NotesInit

\* self._detect_individual_notes(): only the Sections labelled notes get the
\* attribute note_boundaries
DetectIndividualNotes ==
    /\ nb_pc = "call"
    /\ nb_sections' =
           [i \in 1..Len(nb_sections) |->
               IF nb_sections[i].section_type = "notes"
               THEN [nb_sections[i] EXCEPT
                        !.has_boundaries = TRUE,
                        !.note_boundaries = NoteBoundaries(nb_sections[i].text)]
               ELSE nb_sections[i]]
    /\ nb_pc' = "returned"
    /\ UNCHANGED notNotes

NextNotes == DetectIndividualNotes

SpecNotes == InitNotes /\ [][NextNotes]_vars

\* how often rec occurs in the list recs
Occurrences(recs, rec) == Cardinality({j \in 1..Len(recs) : recs[j] = rec})

\* the Sections labelled notes once the call has returned
NotesSectionsDone ==
    IF nb_pc = "returned"
    THEN {i \in 1..Len(nb_sections) : nb_sections[i].section_type = "notes"}
    ELSE {}

\* C26: for each notes Section, note_boundaries holds one record for every
\* match of either pattern family in the Section's text (none dropped, none
\* deduplicated: a heading matched by both families gives two records) and is
\* ordered by position, ascending.
C26_AllMatchesSorted ==
    \A i \in NotesSectionsDone :
        LET nb  == nb_sections[i].note_boundaries
            by1 == FindIter(nb_sections[i].text, "note_word", 1)
            by2 == FindIter(nb_sections[i].text, "numbered", 1)
        IN  /\ nb_sections[i].has_boundaries
            /\ Len(nb) = Len(by1) + Len(by2)
            /\ \A j \in 1..Len(nb) :
                   Occurrences(nb, nb[j]) = Occurrences(by1, nb[j]) + Occurrences(by2, nb[j])
            /\ \A j, k \in 1..Len(nb) : j < k => nb[j].position <= nb[k].position

\* a heading matched by both families has given two records, and a match of
\* the second family precedes a match of the first in some Section
C26_Witness ==
    /\ \E i \in NotesSectionsDone :
           LET nb == nb_sections[i].note_boundaries
           IN  \E j, k \in 1..Len(nb) :
                   /\ j < k
                   /\ nb[j].number = nb[k].number /\ nb[j].title = nb[k].title
                   /\ nb[j].title # <<>>
    /\ \E i \in NotesSectionsDone :
           LET by1 == FindIter(nb_sections[i].text, "note_word", 1)
               by2 == FindIter(nb_sections[i].text, "numbered", 1)
           IN  by1 # <<>> /\ by2 # <<>> /\ by2[1].position < by1[1].position

-----------------------------------------------------------------------------
(* Page coverage of the final Section list *)

\* page n lies in the page range of a Section of secs
Covered(secs, n) ==
    \E i \in 1..Len(secs) : secs[i].start_page <= n /\ n <= secs[i].end_page

\* C27: every page 1..N of a document of N >= 1 pages lies within the page
\* range of at least one Section of the final list: pass 1 partitions the
\* pages and the merge removes only Sections that lie inside the merged range.
C27_PageCoverage ==
    Done => \A n \in 1..Len(pages) : Covered(sections, n)

\* the merge has dropped a financial_statements Section that the loop did not
\* take for part of the notes, another Section lies outside the merged range,
\* and every page is covered
C27_Witness ==
    /\ Done /\ NotesIndices(pass1) # {}
    /\ \E k \in 1..Len(pass1) :
           /\ pass1[k].section_type = "financial_statements"
           /\ ~SectionHas(pass1[k], "note_dot_colon")
           /\ \A i \in 1..Len(sections) : sections[i].start_page # pass1[k].start_page
    /\ \E i \in 1..Len(sections) : sections[i].start_page > MergedNotes.end_page
    /\ \A n \in 1..Len(pages) : Covered(sections, n)

\* pass 1 alone leaves no page out
C27_Pass1Covers ==
    Done => \A n \in 1..Len(pages) : Covered(pass1, n)

-----------------------------------------------------------------------------
(* Sections labelled other *)

\* the Sections of secs labelled other
OtherIndices(secs) == {i \in 1..Len(secs) : secs[i].section_type = "other"}

\* the pages labelled other that come after a page with another label
LateOtherPages ==
    {n \in 1..Len(labels) :
        labels[n] = "other" /\ \E k \in 1..(n - 1) : labels[k] # "other"}

\* C28: a Section labelled other can only be the first Section of the list and
\* then starts at page 1; once a page has received another label, every later
\* page labelled other (an exit page, the trailing unclassified pages) is
\* appended to the Section that precedes it; the final list has at most one
\* other Section.
C28_OtherOnlyFirst ==
    /\ Done =>
           /\ \A i \in OtherIndices(sections) : i = 1 /\ sections[i].start_page = 1
           /\ Cardinality(OtherIndices(sections)) <= 1
    /\ pc \in {"merge", "done"} =>
           \A n \in LateOtherPages :
               \E j \in 1..Len(pass1) :
                   /\ pass1[j].section_type # "other"
                   /\ pass1[j].start_page < n /\ n <= pass1[j].end_page

\* the list opens with an other Section, and an exit page and a last page, both
\* labelled other, went into the Section before them
C28_Witness ==
    /\ Done
    /\ Len(sections) >= 2
    /\ sections[1].section_type = "other" /\ sections[1].start_page = 1
    /\ \E x \in LateOtherPages : StickyBefore(x) /\ ~sticky[x]
    /\ Len(labels) \in LateOtherPages

-----------------------------------------------------------------------------
(* The result of VerbatimExtractor.extract *)

\* the (block, category) pairs of the configuration from block b on, in the
\* order of the dicts
RECURSIVE ConfiguredPairs(_)
ConfiguredPairs(b) ==
    IF b > Len(BLOCKS) THEN <<>>
    ELSE [c \in 1..Len(BLOCKS[b].categories) |->
             [block |-> BLOCKS[b].name, category |-> BLOCKS[b].categories[c]]]
         \o ConfiguredPairs(b + 1)

\* the evidence items of the list of extractions
EvidenceItems(extractions) ==
    UNION {{<<k, j>> : j \in 1..Len(extractions[k].evidence)} : k \in 1..Len(extractions)}

\* C29: whenever VerbatimExtractor.extract returns, extractions holds exactly
\* one CategoryExtraction for every (block, category) pair of the
\* configuration, in configuration order (a block without text, a failed call,
\* an answer that omits, repeats or invents categories), total_evidence is the
\* number of evidence items of the list and verified_count <= total_evidence.
C29_OnePerPair ==
    xt_pc = "returned" =>
        /\ Len(xt_all) = Len(ConfiguredPairs(1))
        /\ \A k \in 1..Len(xt_all) :
               /\ xt_all[k].block = ConfiguredPairs(1)[k].block
               /\ xt_all[k].category = ConfiguredPairs(1)[k].category
        /\ xt_result.total_evidence = Cardinality(EvidenceItems(xt_all))
        /\ xt_result.verified_count <= xt_result.total_evidence

\* the answer of block b names a category twice and leaves one of the block out
RepeatsAndOmits(b) ==
    /\ xt_log[b].kind = "json" /\ xt_log[b].fault = "none"
    /\ \E i, j \in 1..Len(xt_log[b].answered) :
           i < j /\ xt_log[b].answered[i] = xt_log[b].answered[j]
    /\ \E c \in 1..Len(BLOCKS[b].categories) :
           \A i \in 1..Len(xt_log[b].answered) :
               xt_log[b].answered[i] # BLOCKS[b].categories[c]

\* the answer of block b names a category the block does not have
Invents(b) ==
    /\ xt_log[b].kind = "json" /\ xt_log[b].fault = "none"
    /\ \E k \in 1..Len(xt_log[b].answered) :
           \A c \in 1..Len(BLOCKS[b].categories) :
               xt_log[b].answered[k] # BLOCKS[b].categories[c]

\* extract has returned after an answer that repeats a category and omits one
\* and an answer that invents one, with a quote that is not verified
C29_Witness ==
    /\ xt_pc = "returned"
    /\ \E a, b \in 1..Len(xt_log) : RepeatsAndOmits(a) /\ Invents(b)
    /\ xt_result.total_evidence >= 1
    /\ xt_result.verified_count < xt_result.total_evidence

\* extract has returned after a block without text and a call of the
\* generative process that failed
C29_WitnessNoTextFailedCall ==
    /\ xt_pc = "returned"
    /\ \E a, b \in 1..Len(xt_log) :
           xt_log[a].kind = "no_text" /\ xt_log[b].kind = "api_error"

====
